---- MODULE Spec2Model ----
(***************************************************************************)
(* QueryInvoker of invoke_query.py: the browser session it owns, the page  *)
(* loader with retry, the scraping of result triples from the DOM, the     *)
(* relevance scoring and the pass/fail verification.                       *)
(*                                                                         *)
(* Text is a sequence of one-character strings, so that strip, split,      *)
(* lower-casing and substring search are computed character by character.  *)
(* A relevance ratio is the exact fraction <<numerator, denominator>> in   *)
(* lowest terms (the floats the program computes are quotients of small    *)
(* integers, whose order and equality the fractions preserve).             *)
(***************************************************************************)
EXTENDS Integers, Sequences, FiniteSets, TLC

\* ------------------------------------------------------------------ bounds
\* Largest max_retries an invoker is constructed with.
MaxRetries == 3
\* Longest scripted prefix of an environment oracle (outcomes of browser calls).
MaxScript == 2
\* Most marker elements on a page served to a running invoker.
MaxElems == 4
\* Most marker elements on a page given to the extraction functions alone.
MaxDataElems == 7
\* Longest title / snippet / term drawn for the relevance check alone.
MaxTextLen == 2
\* Largest expected_results an invoker is constructed with.
MaxExpected == 1
\* Most run_query calls made on one invoker.
MaxCalls == 1
\* Longest query drawn for the tokenizer and the URL builder alone.
MaxQueryLen == 3
\* The run_query calls made on one invoker in a session of several calls.
MaxSeqCalls == 2

\* --------------------------------------------------------------- constants
\* The driver handle when no session is held (self.driver = None).
NoDriver == "None"
\* Python's None and a present value, for the optional fields.
None == <<>>
Some(v) == <<v>>

\* ------------------------------------------------------------------- text
UpperLetters ==
    <<"A","B","C","D","E","F","G","H","I","J","K","L","M",
      "N","O","P","Q","R","S","T","U","V","W","X","Y","Z">>

LowerLetters ==
    <<"a","b","c","d","e","f","g","h","i","j","k","l","m",
      "n","o","p","q","r","s","t","u","v","w","x","y","z">>

Digits == {"0","1","2","3","4","5","6","7","8","9"}

Whitespace == {" ", "\t", "\n"}

\* str.lower() on one character.
LowerChar(c) ==
    IF \E i \in 1..Len(UpperLetters) : UpperLetters[i] = c
    THEN LowerLetters[CHOOSE i \in 1..Len(UpperLetters) : UpperLetters[i] = c]
    ELSE c

\* str.lower()
Lower(s) == [i \in 1..Len(s) |-> LowerChar(s[i])]

\* A character the regular expression \w matches.
IsWordChar(c) ==
    \/ \E i \in 1..Len(UpperLetters) : UpperLetters[i] = c \/ LowerLetters[i] = c
    \/ c \in Digits
    \/ c = "_"

\* str.strip(): leading and trailing whitespace removed.
Strip(s) ==
    LET keep == {i \in 1..Len(s) : s[i] \notin Whitespace}
    IN  IF keep = {} THEN <<>>
        ELSE LET lo == CHOOSE i \in keep : \A j \in keep : i <= j
                 hi == CHOOSE i \in keep : \A j \in keep : i >= j
             IN  SubSeq(s, lo, hi)

\* Whether sep occurs in s starting at position i (1-based).
OccursAt(s, sep, i) ==
    /\ i >= 1
    /\ i + Len(sep) - 1 <= Len(s)
    /\ \A j \in 1..Len(sep) : s[i + j - 1] = sep[j]

\* Python's `term in text` for strings.
Contains(text, term) == \E i \in 1..(Len(text) + 1) : OccursAt(text, term, i)

\* str.split(sep) for a non-empty separator: the pieces between the
\* non-overlapping occurrences of sep found left to right; never empty.
RECURSIVE SplitOn(_, _)
SplitOn(s, sep) ==
    LET hits == {i \in 1..Len(s) : OccursAt(s, sep, i)}
    IN  IF hits = {} THEN <<s>>
        ELSE LET i == CHOOSE h \in hits : \A g \in hits : h <= g
             IN  <<SubSeq(s, 1, i - 1)>> \o SplitOn(SubSeq(s, i + Len(sep), Len(s)), sep)

\* The literal separator of the term-list cell.
TermSeparator == <<";", " ">>

\* re.findall(r'\w+', s): the maximal runs of word characters, left to right.
RECURSIVE FindAllWords(_)
FindAllWords(s) ==
    LET starts == {i \in 1..Len(s) : IsWordChar(s[i])}
    IN  IF starts = {} THEN <<>>
        ELSE LET lo == CHOOSE i \in starts : \A j \in starts : i <= j
                 ends == {j \in lo..Len(s) : \A k \in lo..j : IsWordChar(s[k])}
                 hi == CHOOSE j \in ends : \A k \in ends : j >= k
             IN  <<SubSeq(s, lo, hi)>> \o FindAllWords(SubSeq(s, hi + 1, Len(s)))

\* The elements of a sequence, as a set.
Range(s) == {s[i] : i \in 1..Len(s)}

\* A set as a sequence without repetition (the order a Python set happens to
\* be iterated in is not fixed by the program; one order is chosen).
RECURSIVE SetToSeq(_)
SetToSeq(S) ==
    IF S = {} THEN <<>>
    ELSE LET x == CHOOSE y \in S : TRUE IN <<x>> \o SetToSeq(S \ {x})

FUNCTION_WORDS == {
    <<"t","h","e">>, <<"a">>, <<"a","n">>, <<"a","n","d">>, <<"b","u","t">>, <<"o","r">>,
    <<"n","o","r">>, <<"f","o","r">>, <<"y","e","t">>, <<"s","o">>, <<"o","f">>,
    <<"i","n">>, <<"t","o">>, <<"b","y">>, <<"a","t">>, <<"a","s">>, <<"w","i","t","h">>,
    <<"o","n">>, <<"f","r","o","m">>, <<"a","b","o","u","t">>, <<"i","n","t","o">>,
    <<"t","h","r","o","u","g","h">>, <<"a","f","t","e","r">>,
    <<"b","e","f","o","r","e">>, <<"d","u","r","i","n","g">>, <<"u","n","d","e","r">>,
    <<"o","v","e","r">>, <<"t","h","i","s">>, <<"t","h","a","t">>,
    <<"t","h","e","s","e">>, <<"t","h","o","s","e">>, <<"m","y">>, <<"y","o","u","r">>,
    <<"h","i","s">>, <<"h","e","r">>, <<"i","t","s">>, <<"o","u","r">>,
    <<"t","h","e","i","r">>, <<"i","s">>, <<"a","m">>, <<"a","r","e">>, <<"w","a","s">>,
    <<"w","e","r","e">>, <<"b","e">>, <<"b","e","e","n">>, <<"b","e","i","n","g">>
    }

\* -------------------------------------------------------------- create_url
\* The characters urllib.parse.quote_plus leaves as they are.
Unreserved(c) == IsWordChar(c) \/ c \in {".", "-", "~"}

\* The percent code of a reserved ASCII character (of those the model uses).
PercentCode(c) ==
    CASE c = "+" -> <<"%", "2", "B">>
      [] c = "&" -> <<"%", "2", "6">>
      [] c = "=" -> <<"%", "3", "D">>
      [] c = "?" -> <<"%", "3", "F">>
      [] c = "/" -> <<"%", "2", "F">>
      [] c = "%" -> <<"%", "2", "5">>
      [] c = " " -> <<"%", "2", "0">>

\* Variant: urllib.parse.quote, which writes a space as its percent code.
RECURSIVE QuotePlus_Percent20(_)
QuotePlus_Percent20(s) ==
    IF s = <<>> THEN <<>>
    ELSE (IF Unreserved(s[1]) THEN <<s[1]>> ELSE PercentCode(s[1]))
         \o QuotePlus_Percent20(Tail(s))

\* urllib.parse.quote_plus
RECURSIVE QuotePlus(_)
QuotePlus(s) ==
    IF s = <<>> THEN <<>>
    ELSE (IF Unreserved(s[1]) THEN <<s[1]>>
          ELSE IF s[1] = " " THEN <<"+">>
          ELSE PercentCode(s[1]))
         \o QuotePlus(Tail(s))

\* The "&key=value" pairs appended for the extra parameters, in the order
\* the dictionary is iterated; additional_params is the list of its items.
RECURSIVE ParamSuffix(_)
ParamSuffix(additional_params) ==
    IF additional_params = <<>> THEN <<>>
    ELSE <<"&">> \o additional_params[1][1] \o <<"=">> \o additional_params[1][2]
         \o ParamSuffix(Tail(additional_params))

SearchPath == <<"/", "r", "u", "n", "_", "s", "e", "a", "r", "c", "h", "?", "q", "u", "e", "r", "y", "=">>

FlagKey == <<"&", "i", "t", "s", "-", "m", "e", "=">>

\* create_url
CreateUrl(base_url, query, its_me, additional_params) ==
    base_url \o SearchPath \o QuotePlus(query) \o FlagKey \o its_me
    \o ParamSuffix(additional_params)

\* ------------------------------------------------------------- fractions
RECURSIVE Gcd(_, _)
Gcd(a, b) == IF b = 0 THEN a ELSE Gcd(b, a % b)

\* n / d as a fraction in lowest terms (d > 0).
Fraction(n, d) == LET g == Gcd(n, d) IN <<n \div g, d \div g>>

Zero == <<0, 1>>

\* a >= b for fractions.
FracGE(a, b) == a[1] * b[2] >= b[1] * a[2]

\* ------------------------------------------------------ relevance scoring
\* Variant: the words are not filtered.
GetNonFunctionWords_KeepAll(query) == Range(FindAllWords(Lower(query)))

\* _get_non_function_words
GetNonFunctionWords(query) ==
    {w \in Range(FindAllWords(Lower(query))) : w \notin FUNCTION_WORDS}

\* The text _is_result_relevant searches: title, one space, snippet, lower-cased.
\* (result.get(key, "") reads a missing key as the empty string.)
Field(result, key) == IF key \in DOMAIN result THEN result[key] ELSE <<>>

\* Variant: only the title is searched.
RelevanceText_TitleOnly(result) == Lower(Field(result, "title"))

\* Variant: title and snippet joined without the space.
RelevanceText_NoSpace(result) == Lower(Field(result, "title") \o Field(result, "snippet"))

RelevanceText(result) == Lower(Field(result, "title") \o <<" ">> \o Field(result, "snippet"))

\* found_terms of _is_result_relevant, for the terms iterated in the order given.
FoundTerms(result, terms) ==
    SelectSeq(terms, LAMBDA t : Contains(RelevanceText(result), Lower(t)))

\* Variant: the relevant flag is set, the list of terms found is not stored.
IsResultRelevant_NoTerms(result, terms) ==
    [k \in (DOMAIN result) \ {"relevant", "relevant_terms"} |-> result[k]]
    @@ [relevant |-> \E i \in 1..Len(terms) : Contains(Lower(Field(result, "title")), terms[i])]

\* _is_result_relevant: the result with its relevant / relevant_terms keys set;
\* the value returned is the relevant flag.
IsResultRelevant(result, terms) ==
    LET found == FoundTerms(result, terms)
        base == [k \in (DOMAIN result) \ {"relevant", "relevant_terms"} |-> result[k]]
    IN  base @@ [relevant |-> found # <<>>, relevant_terms |-> found]

\* ------------------------------------------------- result extraction (DOM)
\* Variant: the snippet is the last term of the cell, not the first.
MakeResult_LastTerm(title, website, terms) ==
    [title |-> title, website |-> website, query_terms |-> terms,
     snippet |-> IF terms # <<>> THEN terms[Len(terms)] ELSE <<>>]

\* The result record built from one triple of marker texts.
MakeResult(title, website, terms) ==
    [title |-> title, website |-> website, query_terms |-> terms,
     snippet |-> IF terms # <<>> THEN terms[1] ELSE <<>>]

\* The loop `for i in range(0, len(search_results) - 2, 3)`; i is the 0-based
\* index of the triple's first element, acc the result_list built so far.
RECURSIVE GroupLoop(_, _, _)
GroupLoop(search_results, i, acc) ==
    IF i >= Len(search_results) - 2 THEN acc
    ELSE LET title == Strip(search_results[i + 1])
             website == Strip(search_results[i + 2])
             terms == SplitOn(Strip(search_results[i + 3]), TermSeparator)
         IN  GroupLoop(search_results, i + 3,
                       IF title # <<>> /\ website # <<>>
                       THEN Append(acc, MakeResult(title, website, terms))
                       ELSE acc)

\* "Remove last item if it's incomplete": result_list.pop() when the element
\* count is not a multiple of 3 and the list is not empty.
PopIncomplete(search_results, result_list) ==
    IF result_list # <<>> /\ Len(search_results) % 3 # 0
    THEN SubSeq(result_list, 1, Len(result_list) - 1)
    ELSE result_list

\* result_list of extract_query_results for a page with at least 3 elements.
ParseResults(search_results) ==
    PopIncomplete(search_results, GroupLoop(search_results, 0, <<>>))

\* Variant: the terms are kept as the list of words found, repeats included.
ScoreResults_ListTerms(result_list, query) ==
    IF query # <<>>
    THEN LET terms == SelectSeq(FindAllWords(Lower(query)),
                                LAMBDA w : w \notin FUNCTION_WORDS)
         IN  [i \in 1..Len(result_list) |-> IsResultRelevant(result_list[i], terms)]
    ELSE result_list

\* The relevance calculation: every result scored when the query is non-empty
\* (`if query:`), the list left as it is otherwise.
ScoreResults(result_list, query) ==
    IF query # <<>>
    THEN LET terms == SetToSeq(GetNonFunctionWords(query))
         IN  [i \in 1..Len(result_list) |-> IsResultRelevant(result_list[i], terms)]
    ELSE result_list

RelevantCount(scored, query) ==
    IF query # <<>>
    THEN Cardinality({i \in 1..Len(scored) : scored[i].relevant})
    ELSE 0

\* Variant: the division the other way round.
RelevanceRatio_Inverted(relevant_count, total_count) ==
    IF relevant_count > 0 THEN <<total_count, relevant_count>> ELSE <<0, 1>>

\* relevance_ratio = relevant_count / total_count if total_count > 0 else 0.0
RelevanceRatio(relevant_count, total_count) ==
    IF total_count > 0 THEN Fraction(relevant_count, total_count) ELSE Zero

\* What the data part of extract_query_results computes from the elements
\* found and the query: the scored list, the counts and the ratio.
ExtractData(search_results, query) ==
    LET result_list == ParseResults(search_results)
        scored == ScoreResults(result_list, query)
        relevant_count == RelevantCount(scored, query)
        total_count == Len(scored)
    IN  [results |-> scored,
         relevant |-> relevant_count,
         total |-> total_count,
         relevance_ratio |-> RelevanceRatio(relevant_count, total_count)]

\* ----------------------------------------------------------- verification
\* stats.get(key, default)
Get(stats, key, default) == IF key \in DOMAIN stats THEN stats[key] ELSE default

\* Variant: a strict comparison of the result count.
ResultsCheck_Strict(stats, expected) == Get(stats, "total", 0) > expected

ResultsCheck(stats, expected) == Get(stats, "total", 0) >= expected

RelevanceCheck(stats, threshold) == FracGE(Get(stats, "relevance_ratio", Zero), threshold)

\* verify_results: the value returned and the reasons it traces on failure.
VerifyResults(stats, expected, threshold) ==
    LET results_check == ResultsCheck(stats, expected)
        relevance_check == RelevanceCheck(stats, threshold)
    IN  IF results_check /\ relevance_check
        THEN [ok |-> TRUE, reasons |-> <<>>]
        ELSE [ok |-> FALSE,
              reasons |->
                  (IF ~results_check THEN <<"results">> ELSE <<>>)
                  \o (IF ~relevance_check THEN <<"relevance">> ELSE <<>>)]

\* ------------------------------------------------ the browser environment
\* An oracle fixes the outcomes of the browser calls one operation makes, in
\* the order it makes them: TRUE the call succeeds, FALSE it raises a
\* WebDriverException. The first calls follow the script, the others `rest`.
Scripts == UNION {[1..n -> BOOLEAN] : n \in 0..MaxScript}

Oracles == [script : Scripts, rest : BOOLEAN]

\* The outcome of the i-th browser call of the operation.
Outcome(orc, i) == IF i <= Len(orc.script) THEN orc.script[i] ELSE orc.rest

\* One entry of the trace of browser calls and sleeps an operation makes.
Ev(ev, who, ok, n) == [ev |-> ev, who |-> who, ok |-> ok, n |-> n]

Backend(use_chrome) == IF use_chrome THEN "chrome" ELSE "firefox"

\* F applied to the value of e, which is computed once.
Bind(e, F(_)) == CHOOSE r \in {F(x) : x \in {e}} : TRUE

\* ------------------------------------------------------- _setup_browser
\* Variant: a failed iteration neither quits the driver it built nor sleeps.
SetupAttempt_NoCleanup(use_chrome, driver, orc, i) ==
    LET b == Backend(use_chrome)
        ok1 == Outcome(orc, i)
        ok2 == Outcome(orc, i + 1)
        built == ok1 \/ ok2
        iT == IF ok1 THEN i + 1 ELSE i + 2
        okT == Outcome(orc, iT)
        evBuild == IF ok1 THEN <<Ev("construct", b, TRUE, 0)>>
                   ELSE <<Ev("construct", b, FALSE, 0), Ev("construct", b, ok2, 0)>>
        evT == IF built THEN <<Ev("set_timeouts", b, okT, 0)>> ELSE <<>>
        iQ == IF built THEN iT + 1 ELSE iT
    IN  IF built /\ okT
        THEN [ok |-> TRUE, driver |-> b, next |-> iQ, log |-> evBuild \o evT]
        ELSE [ok |-> FALSE, driver |-> NoDriver, next |-> iQ, log |-> evBuild \o evT]

\* One iteration of the retry loop, the browser calls numbered from i: the
\* session is constructed with a service and, when that raises, without one;
\* then the timeouts are set. A failure quits whatever driver is held (errors
\* of quit ignored), clears the handle and sleeps 2 seconds. `next` numbers
\* the first browser call after the iteration.
SetupAttempt(use_chrome, driver, orc, i) ==
    LET b == Backend(use_chrome)
        ok1 == Outcome(orc, i)
        ok2 == Outcome(orc, i + 1)
        built == ok1 \/ ok2
        iT == IF ok1 THEN i + 1 ELSE i + 2
        okT == Outcome(orc, iT)
        evBuild == IF ok1 THEN <<Ev("construct", b, TRUE, 0)>>
                   ELSE <<Ev("construct", b, FALSE, 0), Ev("construct", b, ok2, 0)>>
        evT == IF built THEN <<Ev("set_timeouts", b, okT, 0)>> ELSE <<>>
        iQ == IF built THEN iT + 1 ELSE iT
        held == IF built THEN b ELSE driver
        evQ == IF held # NoDriver THEN <<Ev("quit", held, Outcome(orc, iQ), 0)>> ELSE <<>>
    IN  IF built /\ okT
        THEN [ok |-> TRUE, driver |-> b, next |-> iQ, log |-> evBuild \o evT]
        ELSE [ok |-> FALSE, driver |-> NoDriver,
              next |-> IF held # NoDriver THEN iQ + 1 ELSE iQ,
              log |-> evBuild \o evT \o evQ \o <<Ev("sleep", "", TRUE, 2)>>]

\* Variant: use_chrome is switched only when the fallback succeeded.
SetupFallback_Revert(use_chrome, last_exception, driver, orc, i, log) ==
    IF ~use_chrome /\ driver = NoDriver
    THEN LET okC == Outcome(orc, i)
             okT == Outcome(orc, i + 1)
             evs == <<Ev("construct", "chrome", okC, 0)>>
                    \o (IF okC THEN <<Ev("set_timeouts", "chrome", okT, 0)>> ELSE <<>>)
         IN  [raised |-> ~(okC /\ okT),
              driver |-> IF okC THEN "chrome" ELSE NoDriver,
              use_chrome |-> okC /\ okT,
              next |-> IF okC THEN i + 2 ELSE i + 1,
              log |-> log \o <<Ev("fallback", "chrome", TRUE, 0)>> \o evs]
    ELSE [raised |-> last_exception, driver |-> driver, use_chrome |-> use_chrome,
          next |-> i, log |-> log]

\* Variant: no fallback, the recorded exception is raised at once.
SetupFallback_None(use_chrome, last_exception, driver, orc, i, log) ==
    [raised |-> last_exception, driver |-> driver, use_chrome |-> use_chrome,
     next |-> i, log |-> log]

\* After the loop: the fallback to Chrome when Firefox was configured and no
\* driver is held, then the raise when an exception was recorded.
SetupFallback(use_chrome, last_exception, driver, orc, i, log) ==
    IF ~use_chrome /\ driver = NoDriver
    THEN LET okC == Outcome(orc, i)
             okT == Outcome(orc, i + 1)
             evs == <<Ev("construct", "chrome", okC, 0)>>
                    \o (IF okC THEN <<Ev("set_timeouts", "chrome", okT, 0)>> ELSE <<>>)
         IN  [raised |-> ~(okC /\ okT),
              driver |-> IF okC THEN "chrome" ELSE NoDriver,
              use_chrome |-> TRUE,
              next |-> IF okC THEN i + 2 ELSE i + 1,
              log |-> log \o <<Ev("fallback", "chrome", TRUE, 0)>> \o evs]
    ELSE [raised |-> last_exception, driver |-> driver, use_chrome |-> use_chrome,
          next |-> i, log |-> log]

\* The loop `while retry_count < self.max_retries`, then the fallback. Each
\* iteration is marked in the trace with its number, retry_count + 1.
RECURSIVE SetupLoop(_, _, _, _, _, _, _, _)
SetupLoop(use_chrome, max_retries, retry_count, last_exception, driver, orc, i, log) ==
    IF retry_count < max_retries
    THEN Bind(SetupAttempt(use_chrome, driver, orc, i),
              LAMBDA a :
                  LET mark == <<Ev("attempt", Backend(use_chrome), TRUE, retry_count + 1)>>
                  IN  IF a.ok
                      THEN [raised |-> FALSE, driver |-> a.driver,
                            use_chrome |-> use_chrome,
                            next |-> a.next, log |-> log \o mark \o a.log]
                      ELSE SetupLoop(use_chrome, max_retries, retry_count + 1, TRUE,
                                     a.driver, orc, a.next, log \o mark \o a.log))
    ELSE SetupFallback(use_chrome, last_exception, driver, orc, i, log)

\* _setup_browser, its browser calls numbered from i:
\* [raised, driver, use_chrome, next, log]; raised means the WebDriverException
\* "Failed to initialize browser ..." leaves the method.
SetupBrowser(use_chrome, max_retries, driver, orc, i) ==
    SetupLoop(use_chrome, max_retries, 0, FALSE, driver, orc, i, <<>>)

\* ------------------------------------------------ _ensure_browser_active
EnsureBrowserActive(use_chrome, max_retries, driver, orc, i) ==
    IF driver = NoDriver
    THEN SetupBrowser(use_chrome, max_retries, driver, orc, i)
    ELSE IF Outcome(orc, i)
    THEN [raised |-> FALSE, driver |-> driver, use_chrome |-> use_chrome,
          next |-> i + 1, log |-> <<Ev("current_url", driver, TRUE, 0)>>]
    ELSE Bind(SetupBrowser(use_chrome, max_retries, NoDriver, orc, i + 2),
              LAMBDA s :
                  [s EXCEPT !.log = <<Ev("current_url", driver, FALSE, 0),
                                      Ev("quit", driver, Outcome(orc, i + 1), 0)>> \o @])

\* ------------------------------------------------- load_page_with_retry
\* Variant: the recovery drops the handle without quitting the session.
Recover_NoQuit(use_chrome, max_retries, driver, orc, i, log) ==
    Bind(SetupBrowser(use_chrome, max_retries, NoDriver, orc, i),
         LAMBDA s :
             [result |-> IF s.raised THEN "raise_wde" ELSE "next",
              failed |-> TRUE,
              driver |-> s.driver,
              use_chrome |-> s.use_chrome,
              log |-> log \o s.log])

\* The except branch of one load attempt: the held driver is quit (errors
\* ignored; with no driver the AttributeError is swallowed too), the handle is
\* cleared and _setup_browser is called, whose exception leaves the method.
Recover(use_chrome, max_retries, driver, orc, i, log) ==
    LET evQ == IF driver # NoDriver
               THEN <<Ev("quit", driver, Outcome(orc, i), 0)>> ELSE <<>>
        iS == IF driver # NoDriver THEN i + 1 ELSE i
    IN  Bind(SetupBrowser(use_chrome, max_retries, NoDriver, orc, iS),
             LAMBDA s :
                 [result |-> IF s.raised THEN "raise_wde" ELSE "next",
                  failed |-> TRUE,
                  driver |-> s.driver,
                  use_chrome |-> s.use_chrome,
                  log |-> log \o evQ \o s.log])

\* The try statement of one iteration of the loop of load_page_with_retry,
\* after _ensure_browser_active returned ens without raising.
Navigate(max_retries, ens, orc, url_empty) ==
    LET okGet == Outcome(orc, ens.next)
        okUrl == Outcome(orc, ens.next + 1)
        evGet == <<Ev("get", ens.driver, okGet, 0)>>
        evUrl == <<Ev("sleep", "", TRUE, 1),
                   Ev("current_url", ens.driver, okUrl,
                      IF okUrl /\ ~url_empty THEN 1 ELSE 0)>>
    IN  IF ens.driver = NoDriver
        THEN [result |-> "raise_attr", failed |-> FALSE, driver |-> NoDriver,
              use_chrome |-> ens.use_chrome, log |-> ens.log]
        ELSE IF ~okGet
        THEN Recover(ens.use_chrome, max_retries, ens.driver, orc, ens.next + 1,
                     ens.log \o evGet)
        ELSE IF ~okUrl
        THEN Recover(ens.use_chrome, max_retries, ens.driver, orc, ens.next + 2,
                     ens.log \o evGet \o evUrl)
        ELSE [result |-> IF url_empty THEN "next" ELSE "true",
              failed |-> FALSE,
              driver |-> ens.driver,
              use_chrome |-> ens.use_chrome,
              log |-> ens.log \o evGet \o evUrl]

\* The try statement of one iteration of the loop of load_page_with_retry.
\* result: "true" the method returns True; "next" the iteration ends and the
\* loop goes on; "raise_wde" a WebDriverException leaves the method;
\* "raise_attr" self.driver.get fails on a None driver (AttributeError).
\* url_empty: driver.current_url is read as an empty string after the get; the
\* trace entry of that read carries n = 1 when the string is not empty.
LoadAttemptBody(use_chrome, max_retries, driver, orc, url_empty) ==
    Bind(EnsureBrowserActive(use_chrome, max_retries, driver, orc, 1),
         LAMBDA ens :
             IF ens.raised
             THEN Recover(ens.use_chrome, max_retries, ens.driver, orc, ens.next, ens.log)
             ELSE Navigate(max_retries, ens, orc, url_empty))

\* ------------------------------------------------------ get_response_info
\* The title texts the fallback looks for, in the order of code_mapping.
TitleCodes ==
    <<[text |-> "404", code |-> 404], [text |-> "not found", code |-> 404],
      [text |-> "403", code |-> 403], [text |-> "forbidden", code |-> 403],
      [text |-> "500", code |-> 500], [text |-> "server error", code |-> 500]>>

\* The code of the first mapping whose text the title contains, 200 if none;
\* `contained` is the set of mapping texts that occur in the lower-cased title.
CodeFromTitle(contained) ==
    LET hits == {i \in 1..Len(TitleCodes) : TitleCodes[i].text \in contained}
    IN  IF hits = {} THEN 200
        ELSE TitleCodes[CHOOSE i \in hits : \A j \in hits : i <= j].code

ResponseMessage(code) ==
    CASE code = 200 -> "OK"
      [] code = 201 -> "Created"
      [] code = 204 -> "No Content"
      [] code = 400 -> "Bad Request"
      [] code = 401 -> "Unauthorized"
      [] code = 403 -> "Forbidden"
      [] code = 404 -> "Not Found"
      [] code = 500 -> "Internal Server Error"
      [] code = 503 -> "Service Unavailable"
      [] OTHER -> "Unknown"

\* What the page answers to get_response_info: the script raises, or yields a
\* status (None for null), and the title contains some of the mapping texts.
ResponseProbes ==
    {[raised |-> TRUE, status |-> None, contained |-> {}],
     [raised |-> FALSE, status |-> Some(200), contained |-> {}],
     [raised |-> FALSE, status |-> None, contained |-> {"forbidden", "404"}]}

\* get_response_info: the pair (response_code, message).
GetResponseInfo(probe) ==
    IF probe.raised
    THEN [code |-> None, message |-> Some("Error retrieving response info")]
    ELSE LET code == IF probe.status # None THEN probe.status[1]
                     ELSE CodeFromTitle(probe.contained)
         IN  [code |-> Some(code), message |-> Some(ResponseMessage(code))]

\* ---------------------------------------------------- get_stats_from_page
\* What the page answers to get_stats_from_page: no element with the id
\* (NoSuchElementException), another WebDriverException, or the numbers the
\* regular expression finds in the element's text.
StatsProbes ==
    {[kind |-> "missing", numbers |-> <<>>],
     [kind |-> "error", numbers |-> <<>>],
     [kind |-> "text", numbers |-> <<>>],
     [kind |-> "text", numbers |-> <<7>>],
     [kind |-> "text", numbers |-> <<7, 3>>]}

\* Variant: every exception is swallowed and None returned.
GetStatsFromPage_Swallow(probe) ==
    IF probe.kind = "text" /\ probe.numbers # <<>>
    THEN [raised |-> FALSE,
          value |-> <<[total_results |-> probe.numbers[1],
                       query_time |-> IF Len(probe.numbers) > 1
                                      THEN probe.numbers[2] ELSE 0]>>]
    ELSE [raised |-> FALSE, value |-> <<>>]

\* get_stats_from_page: raised (the exception is re-raised) or the value
\* returned, None or the page's statistics.
GetStatsFromPage(probe) ==
    IF probe.kind = "error"
    THEN [raised |-> TRUE, value |-> None]
    ELSE IF probe.kind = "text" /\ probe.numbers # <<>>
    THEN [raised |-> FALSE,
          value |-> Some([total_results |-> probe.numbers[1],
                          query_time |-> IF Len(probe.numbers) > 1
                                         THEN probe.numbers[2] ELSE 0])]
    ELSE [raised |-> FALSE, value |-> None]

\* ------------------------------------------------------------- the state
VARIABLES
    pc,                  \* where the invoker is: "new", "failed", "idle", or a step of run_query
    use_chrome,          \* self.use_chrome
    max_retries,         \* self.max_retries
    driver,              \* self.driver: NoDriver, "firefox" or "chrome"
    expected_results,    \* self.expected_results
    relevance_threshold, \* self.relevance_threshold
    test_results,        \* self.test_results
    rq,                  \* the locals of the run_query call in progress
    load,                \* how load_page_with_retry ended in the call in progress
    log,                 \* the browser calls and sleeps of the last step
    ret,                 \* what the last finished call returned or raised
    calls,               \* how many run_query calls were made on the invoker
    verdict,             \* what verify_results said of the last returned stats
    inp,                 \* the input of a function applied on its own
    out                  \* its value

vars == <<pc, use_chrome, max_retries, driver, expected_results, relevance_threshold,
          test_results, rq, load, log, ret, calls, verdict, inp, out>>

config == <<max_retries, expected_results, relevance_threshold>>

\* The texts of the marker elements of the pages served to a running invoker.
CellTexts == {<<" ">>, <<" ", "P", "y", ";", " ", "x", " ">>}

Pages == UNION {[1..n -> CellTexts] : n \in 0..MaxElems}

\* The queries run: empty, a function word with a matching term, no match.
Queries == {<<>>, <<"T", "h", "e", " ", "P", "y">>, <<"z">>}

ThresholdChoices == {Zero, <<1, 2>>}

NoCall == [query |-> <<>>, retry_count |-> 0, last_exception |-> FALSE,
           response_code |-> None, response_message |-> None,
           found |-> None, data |-> <<>>]

NoReturn == [op |-> "none"]

NoInput == [fn |-> "none"]

\* self.test_results as __init__ sets it.
InitialTestResults(expected, threshold) ==
    [passed |-> FALSE,
     total_results |-> 0,
     relevant_results |-> 0,
     relevance_ratio |-> Zero,
     expected_results |-> expected,
     expected_relevance |-> threshold,
     response_code |-> None,
     response_message |-> None,
     error |-> None,
     individual_results |-> <<>>]

\* __init__ up to `self.driver = None`.
Init ==
    /\ pc = "new"
    /\ use_chrome \in BOOLEAN
    /\ max_retries \in 0..MaxRetries
    /\ expected_results \in 0..MaxExpected
    /\ relevance_threshold \in ThresholdChoices
    /\ driver = NoDriver
    /\ test_results = <<>>
    /\ rq = NoCall
    /\ load = "none"
    /\ log = <<>>
    /\ ret = NoReturn
    /\ calls = 0
    /\ verdict = <<>>
    /\ inp = NoInput
    /\ out = <<>>

\* __init__ from `self._setup_browser()` on: the exception of _setup_browser
\* leaves the constructor, otherwise the remaining attributes are set.
Construct(orc) ==
    /\ pc = "new"
    /\ \E s \in {SetupBrowser(use_chrome, max_retries, driver, orc, 1)} :
           /\ driver' = s.driver
           /\ use_chrome' = s.use_chrome
           /\ log' = s.log
           /\ IF s.raised
              THEN /\ pc' = "failed"
                   /\ ret' = [op |-> "__init__", exc |-> Some("WebDriverException")]
                   /\ UNCHANGED test_results
              ELSE /\ pc' = "idle"
                   /\ ret' = [op |-> "__init__", exc |-> None]
                   /\ test_results' = InitialTestResults(expected_results, relevance_threshold)
    /\ UNCHANGED <<config, rq, load, verdict, inp, out, calls>>

\* ---------------------------------------- run_query / extract_query_results
\* error_response as it stands when the call returns through it.
ErrorResponse(error, code, message) ==
    [total |-> 0, relevant |-> 0, error |-> error,
     response_code |-> code, response_message |-> message]

\* The tuple extract_query_results returns on its error paths (query: the
\* argument of the call; found: the number of marker elements the call had
\* read, None before it reads them).
ErrorReturn(error, code, message) ==
    [op |-> "run_query", exc |-> None, query |-> rq.query, found |-> rq.found,
     results |-> <<>>,
     relevant_count |-> 0, relevance_ratio |-> Zero,
     stats |-> ErrorResponse(error, code, message)]

\* Variant: extract_query_results has no handler, the exception leaves
\* run_query.
HandleWebDriverException_Escapes ==
    /\ ret' = [op |-> "run_query", exc |-> Some("WebDriverException"), query |-> rq.query]
    /\ test_results' = test_results
    /\ pc' = "idle"
    /\ rq' = NoCall
    /\ load' = "none"

\* `except WebDriverException as e` of extract_query_results.
HandleWebDriverException ==
    /\ ret' = ErrorReturn("WebDriverException", rq.response_code, rq.response_message)
    /\ test_results' = [test_results EXCEPT !.error = Some("WebDriverException")]
    /\ pc' = "idle"
    /\ rq' = NoCall
    /\ load' = "none"

\* run_query is entered: create_url, then extract_query_results up to the loop
\* of load_page_with_retry.
RunQueryUpTo(query, limit) ==
    /\ pc = "idle"
    /\ calls < limit
    /\ calls' = calls + 1
    /\ pc' = "load"
    /\ rq' = [NoCall EXCEPT !.query = query]
    /\ load' = "pending"
    /\ log' = <<>>
    /\ ret' = NoReturn
    /\ verdict' = <<>>
    /\ UNCHANGED <<use_chrome, driver, config, test_results, inp, out>>

RunQuery(query) == RunQueryUpTo(query, MaxCalls)

\* One pass through the try statement of the loop of load_page_with_retry.
LoadAttempt(orc, url_empty) ==
    /\ pc = "load"
    /\ rq.retry_count < max_retries
    /\ \E b \in {LoadAttemptBody(use_chrome, max_retries, driver, orc, url_empty)} :
           /\ driver' = b.driver
           /\ use_chrome' = b.use_chrome
           /\ log' = b.log
           /\ rq' = [rq EXCEPT !.last_exception = @ \/ b.failed]
           /\ IF b.result = "next"
              THEN pc' = "load_tail" /\ UNCHANGED load
              ELSE pc' = "loaded" /\ load' = b.result
    /\ UNCHANGED <<config, test_results, ret, verdict, inp, out, calls>>

\* Variant: the iteration ends without `retry_count += 1`.
LoadBackoff_NoCount ==
    /\ pc = "load_tail"
    /\ pc' = "load"
    /\ log' = IF rq.retry_count + 1 < max_retries
              THEN <<Ev("sleep", "", TRUE, (rq.retry_count + 1) * 2)>>
              ELSE <<>>
    /\ UNCHANGED <<use_chrome, driver, config, test_results, rq, load, ret, verdict,
                   inp, out, calls>>

\* Variant: the pause between attempts is 2 seconds whatever the attempt.
LoadBackoff_Fixed ==
    /\ pc = "load_tail"
    /\ pc' = "load"
    /\ rq' = [rq EXCEPT !.retry_count = @ + 1]
    /\ log' = IF rq.retry_count + 1 < max_retries
              THEN <<Ev("sleep", "", TRUE, 2)>>
              ELSE <<>>
    /\ UNCHANGED <<use_chrome, driver, config, test_results, load, ret, verdict, inp, out, calls>>

\* The end of an iteration: retry_count += 1 and the progressive backoff.
LoadBackoff ==
    /\ pc = "load_tail"
    /\ pc' = "load"
    /\ rq' = [rq EXCEPT !.retry_count = @ + 1]
    /\ log' = IF rq.retry_count + 1 < max_retries
              THEN <<Ev("sleep", "", TRUE, (rq.retry_count + 1) * 2)>>
              ELSE <<>>
    /\ UNCHANGED <<use_chrome, driver, config, test_results, load, ret, verdict, inp, out, calls>>

\* The loop ends with the retries used up: load_page_with_retry returns False.
LoadExhausted ==
    /\ pc = "load"
    /\ rq.retry_count >= max_retries
    /\ pc' = "loaded"
    /\ load' = "false"
    /\ log' = <<>>
    /\ UNCHANGED <<use_chrome, driver, config, test_results, rq, ret, verdict, inp, out, calls>>

\* extract_query_results after a load that did not return True.
LoadFailed ==
    /\ pc = "loaded"
    /\ load # "true"
    /\ log' = <<>>
    /\ CASE load = "false" ->
              /\ ret' = ErrorReturn("Failed to load page after retries",
                                    None, Some("Connection failed"))
              /\ pc' = "idle" /\ rq' = NoCall /\ load' = "none"
              /\ UNCHANGED test_results
         [] load = "raise_wde" -> HandleWebDriverException
         [] OTHER ->
              /\ ret' = [op |-> "run_query", exc |-> Some("AttributeError"),
                         query |-> rq.query]
              /\ pc' = "idle" /\ rq' = NoCall /\ load' = "none"
              /\ UNCHANGED test_results
    /\ UNCHANGED <<use_chrome, driver, config, verdict, inp, out, calls>>

\* get_response_info and the two updates that store its answer.
ResponseInfoStep(probe) ==
    /\ pc = "loaded"
    /\ load = "true"
    /\ LET info == GetResponseInfo(probe)
       IN  /\ rq' = [rq EXCEPT !.response_code = info.code,
                               !.response_message = info.message]
           /\ test_results' = [test_results EXCEPT !.response_code = info.code,
                                                   !.response_message = info.message]
    /\ pc' = "wait"
    /\ log' = <<>>
    /\ UNCHANGED <<use_chrome, driver, config, load, ret, verdict, inp, out, calls>>

\* Variant: wait_for_results does not catch the TimeoutException, which the
\* handler of extract_query_results then takes as a WebDriverException.
WaitStep_Uncaught(outcome) ==
    /\ pc = "wait"
    /\ CASE outcome = "found" ->
              /\ pc' = "find"
              /\ UNCHANGED <<test_results, rq, load, ret>>
         [] OTHER -> HandleWebDriverException
    /\ UNCHANGED <<use_chrome, driver, config, log, verdict, inp, out, calls>>

\* wait_for_results: the marker element is found, the wait times out, or the
\* wait raises another WebDriverException.
WaitStep(outcome) ==
    /\ pc = "wait"
    /\ CASE outcome = "found" ->
              /\ pc' = "find"
              /\ UNCHANGED <<test_results, rq, load, ret>>
         [] outcome = "timeout" ->
              /\ ret' = ErrorReturn("Timeout waiting for results",
                                    rq.response_code, rq.response_message)
              /\ pc' = "idle" /\ rq' = NoCall /\ load' = "none"
              /\ UNCHANGED test_results
         [] OTHER -> HandleWebDriverException
    /\ UNCHANGED <<use_chrome, driver, config, log, verdict, inp, out, calls>>

\* find_elements and the processing of what it returns, up to the stats
\* dictionary; found.raised: reading the elements raises a WebDriverException.
FindStep(found) ==
    /\ pc = "find"
    /\ IF found.raised
       THEN HandleWebDriverException
       ELSE IF Len(found.elems) < 3
       THEN /\ ret' = [ErrorReturn("Not enough search results",
                                   rq.response_code, rq.response_message)
                       EXCEPT !.found = Some(Len(found.elems))]
            /\ pc' = "idle" /\ rq' = NoCall /\ load' = "none"
            /\ UNCHANGED test_results
       ELSE /\ rq' = [rq EXCEPT !.found = Some(Len(found.elems)),
                                !.data = ExtractData(found.elems, rq.query)]
            /\ pc' = "stats"
            /\ UNCHANGED <<test_results, load, ret>>
    /\ UNCHANGED <<use_chrome, driver, config, log, verdict, inp, out, calls>>

\* Variant: the stats say why results were dropped.
BaseStats_Reason(data, code, message) ==
    [total |-> data.total, relevant |-> data.relevant,
     relevance_ratio |-> data.relevance_ratio,
     response_code |-> code, response_message |-> message,
     error |-> "Incomplete result group"]

\* The stats dictionary before the page's own statistics are added.
BaseStats(data, code, message) ==
    [total |-> data.total, relevant |-> data.relevant,
     relevance_ratio |-> data.relevance_ratio,
     response_code |-> code, response_message |-> message]

\* self.test_results.update(...) at the end of extract_query_results.
UpdatedTestResults(tr, data, expected, threshold) ==
    [tr EXCEPT !.total_results = data.total,
               !.relevant_results = data.relevant,
               !.relevance_ratio = data.relevance_ratio,
               !.individual_results = data.results,
               !.passed = /\ data.total >= expected
                          /\ FracGE(data.relevance_ratio, threshold)]

\* get_stats_from_page, the update of test_results and the return.
StatsStep(probe) ==
    /\ pc = "stats"
    /\ LET page == GetStatsFromPage(probe)
           base == BaseStats(rq.data, rq.response_code, rq.response_message)
       IN  IF page.raised
           THEN HandleWebDriverException
           ELSE /\ ret' = [op |-> "run_query", exc |-> None,
                           query |-> rq.query,
                           found |-> rq.found,
                           results |-> rq.data.results,
                           relevant_count |-> rq.data.relevant,
                           relevance_ratio |-> rq.data.relevance_ratio,
                           stats |-> IF page.value # None
                                     THEN page.value[1] @@ base ELSE base]
                /\ test_results' = UpdatedTestResults(test_results, rq.data,
                                                      expected_results, relevance_threshold)
                /\ pc' = "idle" /\ rq' = NoCall /\ load' = "none"
    /\ UNCHANGED <<use_chrome, driver, config, log, verdict, inp, out, calls>>

\* verify_results on what run_query returned, as run_main_step calls it.
Verify ==
    /\ pc = "idle"
    /\ ret.op = "run_query"
    /\ ret.exc = None
    /\ verdict = <<>>
    /\ verdict' = <<VerifyResults(ret.stats, expected_results, relevance_threshold)>>
    /\ UNCHANGED <<pc, use_chrome, driver, config, test_results, rq, load, log, ret, inp, out, calls>>

\* Variant: close() does not return early when no driver is held; the call on
\* None raises an AttributeError, which the outer handler re-raises.
Close_NoGuard(orc) ==
    /\ pc = "idle"
    /\ driver' = NoDriver
    /\ log' = IF driver = NoDriver THEN <<>>
              ELSE <<Ev("close", driver, Outcome(orc, 1), 0),
                     Ev("quit", driver, Outcome(orc, 2), 0)>>
    /\ ret' = [op |-> "close",
               exc |-> IF driver = NoDriver THEN Some("AttributeError") ELSE None,
               held |-> driver]
    /\ verdict' = <<>>
    /\ UNCHANGED <<pc, use_chrome, config, test_results, rq, load, inp, out, calls>>

\* Variant: window close and quit share one try block, so that a failed
\* window close skips the quit.
Close_OneTry(orc) ==
    /\ pc = "idle"
    /\ driver' = NoDriver
    /\ log' = IF driver = NoDriver THEN <<>>
              ELSE IF Outcome(orc, 1)
              THEN <<Ev("close", driver, TRUE, 0), Ev("quit", driver, Outcome(orc, 2), 0)>>
              ELSE <<Ev("close", driver, FALSE, 0)>>
    /\ ret' = [op |-> "close", exc |-> None, held |-> driver]
    /\ verdict' = <<>>
    /\ UNCHANGED <<pc, use_chrome, config, test_results, rq, load, inp, out, calls>>

\* close(): window close, then quit, each error swallowed; the handle cleared
\* (held: the driver the invoker held when close() was called).
Close(orc) ==
    /\ pc = "idle"
    /\ driver' = NoDriver
    /\ log' = IF driver = NoDriver THEN <<>>
              ELSE <<Ev("close", driver, Outcome(orc, 1), 0),
                     Ev("quit", driver, Outcome(orc, 2), 0)>>
    /\ ret' = [op |-> "close", exc |-> None, held |-> driver]
    /\ verdict' = <<>>
    /\ UNCHANGED <<pc, use_chrome, config, test_results, rq, load, inp, out, calls>>

Founds == {[raised |-> TRUE, elems |-> <<>>]} \cup {[raised |-> FALSE, elems |-> p] : p \in Pages}

Next ==
    \/ \E orc \in Oracles : Construct(orc)
    \/ \E q \in Queries : RunQuery(q)
    \/ \E orc \in Oracles, e \in BOOLEAN : LoadAttempt(orc, e)
    \/ LoadBackoff
    \/ LoadExhausted
    \/ LoadFailed
    \/ \E probe \in ResponseProbes : ResponseInfoStep(probe)
    \/ \E o \in {"found", "timeout", "error"} : WaitStep(o)
    \/ \E f \in Founds : FindStep(f)
    \/ \E probe \in StatsProbes : StatsStep(probe)
    \/ Verify
    \/ \E orc \in Oracles : Close(orc)

Spec == Init /\ [][Next]_vars

\* run_query followed to its end for every max_retries, both backends and
\* every outcome of the browser calls; the page served is empty or one group
\* of blank elements, since no loop of the load depends on what the page holds.
LiveInit ==
    /\ pc = "new"
    /\ use_chrome \in BOOLEAN
    /\ max_retries \in 0..MaxRetries
    /\ expected_results = 0
    /\ relevance_threshold = Zero
    /\ driver = NoDriver
    /\ test_results = <<>>
    /\ rq = NoCall
    /\ load = "none"
    /\ log = <<>>
    /\ ret = NoReturn
    /\ calls = 0
    /\ verdict = <<>>
    /\ inp = NoInput
    /\ out = <<>>

LiveFounds ==
    {[raised |-> TRUE, elems |-> <<>>],
     [raised |-> FALSE, elems |-> <<>>],
     [raised |-> FALSE, elems |-> [i \in 1..3 |-> <<" ">>]]}

\* The steps of a run_query call in progress. The call runs in one thread and
\* every browser call and wait in it has a timeout, so a call that was entered
\* goes on to its next step.
RunQueryStep ==
    \/ \E orc \in Oracles, e \in BOOLEAN : LoadAttempt(orc, e)
    \/ LoadBackoff
    \/ LoadExhausted
    \/ LoadFailed
    \/ \E probe \in ResponseProbes : ResponseInfoStep(probe)
    \/ \E o \in {"found", "timeout", "error"} : WaitStep(o)
    \/ \E f \in LiveFounds : FindStep(f)
    \/ \E probe \in StatsProbes : StatsStep(probe)

LiveNext ==
    \/ \E orc \in Oracles : Construct(orc)
    \/ RunQuery(<<"z">>)
    \/ RunQueryStep

LiveSpec == LiveInit /\ [][LiveNext]_vars /\ WF_vars(RunQueryStep)

\* ------------------------------------------- several calls on one invoker
\* A Firefox invoker with max_retries = 1 on which run_query is called up to
\* MaxSeqCalls times, against a browser that either answers every call of an
\* operation or fails every one, and pages of no or three marker elements.
SeqInit ==
    /\ pc = "new"
    /\ use_chrome = FALSE
    /\ max_retries = 1
    /\ expected_results \in 0..MaxExpected
    /\ relevance_threshold \in ThresholdChoices
    /\ driver = NoDriver
    /\ test_results = <<>>
    /\ rq = NoCall
    /\ load = "none"
    /\ log = <<>>
    /\ ret = NoReturn
    /\ calls = 0
    /\ verdict = <<>>
    /\ inp = NoInput
    /\ out = <<>>

Working == [script |-> <<>>, rest |-> TRUE]

Broken == [script |-> <<>>, rest |-> FALSE]

SeqQueries == {<<"T", "h", "e", " ", "P", "y">>}

SeqFounds ==
    {[raised |-> TRUE, elems |-> <<>>]}
    \cup {[raised |-> FALSE, elems |-> p] : p \in [1..0 -> CellTexts] \cup [1..3 -> CellTexts]}

SeqNext ==
    \/ Construct(Working)
    \/ \E q \in SeqQueries : RunQueryUpTo(q, MaxSeqCalls)
    \/ \E orc \in {Working, Broken}, e \in BOOLEAN : LoadAttempt(orc, e)
    \/ LoadBackoff
    \/ LoadExhausted
    \/ LoadFailed
    \/ ResponseInfoStep([raised |-> FALSE, status |-> Some(200), contained |-> {}])
    \/ \E o \in {"found", "timeout", "error"} : WaitStep(o)
    \/ \E f \in SeqFounds : FindStep(f)
    \/ \E probe \in {[kind |-> "missing", numbers |-> <<>>],
                      [kind |-> "error", numbers |-> <<>>]} : StatsStep(probe)
    \/ Verify

SeqSpec == SeqInit /\ [][SeqNext]_vars

\* ------------------------------------------------------ save_test_results
\* What a filesystem or serialization call of save_test_results can do: return,
\* or raise an exception of one of these classes (PermissionError and IOError
\* are OSError in Python 3; RuntimeError and KeyError stand for the classes no
\* handler names).
FsOutcomes == {"ok", "OSError", "PermissionError", "TypeError", "ValueError",
               "RuntimeError", "KeyError"}

\* Variant: the last handler swallows the unexpected error too.
SaveHandler_SwallowAll(raised) ==
    [value |-> Some(FALSE), exc |-> None]

\* The except clauses of save_test_results, for an exception of class raised:
\* the value returned (None when the exception leaves the method) and the
\* exception that leaves it.
SaveHandler(raised) ==
    IF raised \in {"IOError", "OSError", "PermissionError"}
    THEN [value |-> Some(FALSE), exc |-> None]
    ELSE IF raised \in {"TypeError", "ValueError"}
    THEN [value |-> Some(FALSE), exc |-> None]
    ELSE [value |-> None, exc |-> Some(raised)]

\* save_test_results(filename) on an invoker whose results are tr. has_dir:
\* the filename has a directory part; dir_exists: that directory exists;
\* mkdir, write: what create_directory and write_json do when called.
\* calls: the calls made, in order; written: write_json returned;
\* test_results: self.test_results afterwards.
SaveTestResults(tr, has_dir, dir_exists, mkdir, write) ==
    LET creates == has_dir /\ ~dir_exists
        made == (IF has_dir THEN <<"file_exists">> ELSE <<>>)
                \o (IF creates THEN <<"create_directory">> ELSE <<>>)
                \o (IF creates /\ mkdir # "ok" THEN <<>> ELSE <<"write_json">>)
        raised == IF creates /\ mkdir # "ok" THEN mkdir ELSE write
    IN  IF raised = "ok"
        THEN [value |-> Some(TRUE), exc |-> None, written |-> TRUE,
              calls |-> made, test_results |-> tr]
        ELSE SaveHandler(raised)
             @@ [written |-> FALSE, calls |-> made, test_results |-> tr]

\* ------------------------------------------- the functions on their own
\* The marker texts of the pages given to the extraction: blank, a cell whose
\* first term is "Py", a cell whose only term is "z".
DataCellTexts == CellTexts \cup {<<"z">>}

DataPages == UNION {[1..n -> DataCellTexts] : n \in 3..MaxDataElems}

\* The queries given to the extraction: those run, and one that names a word
\* twice and has two terms.
ExtractQueries == Queries \cup {<<"x", " ", "P", "y", " ", "x">>}

\* Titles and snippets, and the term lists _is_result_relevant is given.
Texts == UNION {[1..n -> {"a", "B"}] : n \in 0..MaxTextLen}

TermLists == {<<>>, <<<<"a", "b">>>>, <<<<"B">>>>, <<<<"a", "b">>, <<"B">>>>}

\* The query of test_function__get_non_function_words.
WakandaQuery ==
    <<"h", "e", " ", "i", "s", " ", "f", "r", "o", "m", " ", "t", "h", "e", " ", "k", "i", "n", "g", "d", "o", "m", " ", "o", "f", " ", "w", "a", "k", "a", "n", "d", "a">>

\* The queries given to the tokenizer: a function word in either case, another
\* letter, the underscore, a comma and the space.
WordQueries ==
    UNION {[1..n -> {"A", "a", "b", "_", ",", " "}] : n \in 0..MaxQueryLen}
    \cup {WakandaQuery}

\* SCRAPPYCITO_MAIN, the default base_url.
BaseUrl == <<"h", "t", "t", "p", ":", "/", "/", "s", "c", "r", "a", "p", "p", "y", "c", "i", "t", "o", ".", "c", "o", "m", ":", "9", "3", "3", "0">>

\* The queries given to create_url: a letter, the space and two reserved
\* characters.
UrlQueries == UNION {[1..n -> {"a", " ", "+", "&"}] : n \in 0..MaxQueryLen}

Flags == {<<"o", "n">>, <<"o", "f", "f">>}

\* The items of additional_params: none, one, two in either order.
ParamLists ==
    LET kv == <<<<"k">>, <<"v">>>>
        jw == <<<<"j">>, <<"w">>>>
    IN  {<<>>, <<kv>>, <<kv, jw>>, <<jw, kv>>}

\* The invokers _ensure_browser_active can be called on: the backend flag,
\* max_retries, and the driver held, which is none (after close, or after a
\* construction that returned without a driver) or one of the flag's backend.
Invokers ==
    {[use_chrome |-> u, max_retries |-> m, driver |-> d] :
        u \in BOOLEAN, m \in 0..MaxRetries, d \in {NoDriver, "firefox", "chrome"}}

HeldInvokers ==
    {v \in Invokers : v.driver \in {NoDriver, Backend(v.use_chrome)}}

\* The end-to-end scenario: the query, and stub pages of three triples (title,
\* website, term cell) that name "python" in the title, in the snippet (the
\* first term) or in both, in any letter case.
PythonQuery ==
    <<"p", "y", "t", "h", "o", "n", " ", "p", "r", "o", "g", "r", "a", "m", "m", "i", "n", "g">>

PythonTriples ==
    {<<<<"P", "y", "t", "h", "o", "n", " ", "T", "i", "p", "s">>, <<"a", ".", "c", "o", "m">>, <<"x", ";", " ", "y">>>>,
     <<<<"D", "o", "c", "s">>, <<"b", ".", "o", "r", "g">>, <<" ", "p", "y", "t", "h", "o", "n", ";", " ", "z">>>>,
     <<<<"P", "Y", "T", "H", "O", "N">>, <<"c", ".", "n", "e", "t">>, <<"P", "y", "t", "h", "o", "n">>>>}

ScenarioPages ==
    {a \o b \o c : a \in PythonTriples, b \in PythonTriples, c \in PythonTriples}

\* The threshold 0.7 of the scenario.
ScenarioThreshold == <<7, 10>>

\* The results saved: those of a new invoker and those after a failed call.
SavedResults ==
    {InitialTestResults(0, Zero),
     [InitialTestResults(1, <<1, 2>>) EXCEPT !.error = Some("WebDriverException"),
                                             !.response_code = Some(404)]}

FnInputs ==
    {[fn |-> "scenario", search_results |-> p, query |-> PythonQuery,
      expected_results |-> Len(p) \div 3, relevance_threshold |-> ScenarioThreshold] :
        p \in ScenarioPages}
    \cup
    {[fn |-> "save", test_results |-> tr, has_dir |-> h, dir_exists |-> x,
      mkdir |-> m, write |-> w] :
        tr \in SavedResults, h \in BOOLEAN, x \in BOOLEAN,
        m \in FsOutcomes, w \in FsOutcomes}
    \cup
    {[fn |-> "extract", search_results |-> p, query |-> q] :
        p \in DataPages, q \in ExtractQueries}
    \cup {[fn |-> "ensure", invoker |-> v, orc |-> o] : v \in HeldInvokers, o \in Oracles}
    \cup {[fn |-> "words", query |-> q] : q \in WordQueries}
    \cup {[fn |-> "url", query |-> q, its_me |-> f, additional_params |-> ps] :
             q \in UrlQueries, f \in Flags, ps \in ParamLists}
    \cup {[fn |-> "relevant", result |-> [title |-> t, snippet |-> n], terms |-> ts] :
             t \in Texts, n \in Texts, ts \in TermLists}

\* No invoker is running; one input is drawn.
FnInit ==
    /\ pc = "fn"
    /\ use_chrome = FALSE
    /\ max_retries = 0
    /\ expected_results = 0
    /\ relevance_threshold = Zero
    /\ driver = NoDriver
    /\ test_results = <<>>
    /\ rq = NoCall
    /\ load = "none"
    /\ log = <<>>
    /\ ret = NoReturn
    /\ calls = 0
    /\ verdict = <<>>
    /\ inp \in FnInputs
    /\ out = <<>>

\* The data part of extract_query_results applied to the elements of a page.
ApplyExtract ==
    /\ inp.fn = "extract"
    /\ out = <<>>
    /\ out' = <<ExtractData(inp.search_results, inp.query)>>
    /\ UNCHANGED <<pc, use_chrome, driver, config, test_results, rq, load, log, ret,
                   calls, verdict, inp>>

\* _is_result_relevant applied to a result and a list of terms.
ApplyIsResultRelevant ==
    /\ inp.fn = "relevant"
    /\ out = <<>>
    /\ out' = <<IsResultRelevant(inp.result, inp.terms)>>
    /\ UNCHANGED <<pc, use_chrome, driver, config, test_results, rq, load, log, ret,
                   calls, verdict, inp>>

\* _get_non_function_words applied to a query.
ApplyGetNonFunctionWords ==
    /\ inp.fn = "words"
    /\ out = <<>>
    /\ out' = <<GetNonFunctionWords(inp.query)>>
    /\ UNCHANGED <<pc, use_chrome, driver, config, test_results, rq, load, log, ret,
                   calls, verdict, inp>>

\* create_url applied to a query, a flag and extra parameters.
ApplyCreateUrl ==
    /\ inp.fn = "url"
    /\ out = <<>>
    /\ out' = <<CreateUrl(BaseUrl, inp.query, inp.its_me, inp.additional_params)>>
    /\ UNCHANGED <<pc, use_chrome, driver, config, test_results, rq, load, log, ret,
                   calls, verdict, inp>>

\* _ensure_browser_active called on an invoker, the browser answering by orc.
ApplyEnsureBrowserActive ==
    /\ inp.fn = "ensure"
    /\ out = <<>>
    /\ out' = <<EnsureBrowserActive(inp.invoker.use_chrome, inp.invoker.max_retries,
                                    inp.invoker.driver, inp.orc, 1)>>
    /\ UNCHANGED <<pc, use_chrome, driver, config, test_results, rq, load, log, ret,
                   calls, verdict, inp>>

\* save_test_results called with the filesystem answering as the input says.
ApplySaveTestResults ==
    /\ inp.fn = "save"
    /\ out = <<>>
    /\ out' = <<SaveTestResults(inp.test_results, inp.has_dir, inp.dir_exists,
                                inp.mkdir, inp.write)>>
    /\ UNCHANGED <<pc, use_chrome, driver, config, test_results, rq, load, log, ret,
                   calls, verdict, inp>>

\* The data part of extract_query_results, its stats, the update of
\* test_results and verify_results on the stats, for a page served with
\* response code 200 and no statistics of its own.
ApplyScenario ==
    /\ inp.fn = "scenario"
    /\ out = <<>>
    /\ \E data \in {ExtractData(inp.search_results, inp.query)} :
           \E stats \in {BaseStats(data, Some(200), Some("OK"))} :
               out' = <<[results |-> data.results,
                         relevant_count |-> data.relevant,
                         relevance_ratio |-> data.relevance_ratio,
                         stats |-> stats,
                         verdict |-> VerifyResults(stats, inp.expected_results,
                                                   inp.relevance_threshold),
                         test_results |->
                             UpdatedTestResults(
                                 InitialTestResults(inp.expected_results,
                                                    inp.relevance_threshold),
                                 data, inp.expected_results, inp.relevance_threshold)]>>
    /\ UNCHANGED <<pc, use_chrome, driver, config, test_results, rq, load, log, ret,
                   calls, verdict, inp>>

FnNext ==
    \/ ApplyScenario
    \/ ApplySaveTestResults
    \/ ApplyEnsureBrowserActive
    \/ ApplyExtract
    \/ ApplyIsResultRelevant
    \/ ApplyGetNonFunctionWords
    \/ ApplyCreateUrl

FnSpec == FnInit /\ [][FnNext]_vars

\* =============================================================== properties
\* A run_query call has returned a (results, stats) pair.
Returned == ret.op = "run_query" /\ ret.exc = None

\* How many entries of a trace are the call `ev` made on `who`.
CountEv(trace, ev, who) ==
    Cardinality({i \in 1..Len(trace) : trace[i].ev = ev /\ trace[i].who = who})

\* a >= b for two ratios, by cross-multiplication.
RatioAtLeast(a, b) == a[1] * b[2] >= b[1] * a[2]

\* ---- C1
\* The complete triples of a page whose stripped title or website is empty.
SkippedGroups(search_results) ==
    Cardinality({g \in 0..((Len(search_results) \div 3) - 1) :
                    \/ Strip(search_results[3 * g + 1]) = <<>>
                    \/ Strip(search_results[3 * g + 2]) = <<>>})

\* C1 (as the specification states it): for N >= 3 marker elements with
\* N mod 3 /= 0 only the trailing N mod 3 elements are dropped, so that the
\* number of results is floor(N/3) minus the number of complete triples
\* skipped for an empty title or website. The code does not do this: after
\* grouping the complete triples it also removes the last result built.
C1_OnlyTrailingElementsDropped ==
    (inp.fn = "extract" /\ out # <<>> /\ Len(inp.search_results) % 3 # 0)
        => Len(out[1].results)
               = (Len(inp.search_results) \div 3) - SkippedGroups(inp.search_results)

\* ---- C2
\* C2: verify_results returns true exactly when stats.total >= expected_results
\* and stats.relevance_ratio >= relevance_threshold (a missing ratio read as
\* 0.0), and on false the reasons name exactly the violated conditions, each
\* once.
C2_VerifyResults ==
    verdict # <<>> =>
        LET ratio == IF "relevance_ratio" \in DOMAIN ret.stats
                     THEN ret.stats.relevance_ratio ELSE <<0, 1>>
            count_ok == ret.stats.total >= expected_results
            ratio_ok == RatioAtLeast(ratio, relevance_threshold)
            violated == (IF count_ok THEN {} ELSE {"results"})
                        \cup (IF ratio_ok THEN {} ELSE {"relevance"})
        IN  /\ verdict[1].ok <=> (count_ok /\ ratio_ok)
            /\ Range(verdict[1].reasons) = violated
            /\ Len(verdict[1].reasons) = Cardinality(violated)

\* The count is met and the ratio is not: the one reason is the ratio.
C2_Witness ==
    /\ verdict # <<>>
    /\ ret.stats.total >= expected_results
    /\ ret.stats.total > 0
    /\ verdict[1] = [ok |-> FALSE, reasons |-> <<"relevance">>]

\* ---- C3
\* C3 (amended): the fallback runs from Firefox, the default backend, to
\* Chrome. In the constructor's _setup_browser, when Firefox is configured the
\* fallback is taken exactly when all max_retries loop attempts failed, it
\* makes exactly one Chrome construction, after every Firefox one, and a
\* failure is raised only after it; when Chrome is configured no other
\* backend is tried.
C3_FallbackFirefoxToChrome ==
    [][(pc = "new" /\ pc' # "new") =>
          LET failed_attempts == CountEv(log', "sleep", "")
              fallbacks == CountEv(log', "fallback", "chrome")
              chrome_builds == CountEv(log', "construct", "chrome")
          IN  IF use_chrome
              THEN /\ fallbacks = 0
                   /\ \A i \in 1..Len(log') : log'[i].who # "firefox"
              ELSE /\ fallbacks = (IF failed_attempts = max_retries THEN 1 ELSE 0)
                   /\ chrome_builds = fallbacks
                   /\ \A i, j \in 1..Len(log') :
                          (log'[i].who = "firefox" /\ log'[j].who = "chrome") => i < j
                   /\ pc' = "failed" => chrome_builds = 1
      ]_vars

\* Firefox failed twice or more, the one Chrome attempt failed, the
\* constructor raised.
C3_Witness ==
    /\ pc = "failed"
    /\ max_retries >= 2
    /\ CountEv(log, "sleep", "") = max_retries
    /\ CountEv(log, "construct", "firefox") >= 2
    /\ CountEv(log, "construct", "chrome") = 1

\* C3 (as the specification states it): when Chrome, the non-default backend,
\* has failed all its attempts, one attempt is made with Firefox before the
\* failure is raised.
C3_FallbackToDefaultBackend ==
    [][(pc = "new" /\ use_chrome /\ pc' = "failed")
          => CountEv(log', "construct", "firefox") = 1]_vars

\* ---- C4
\* C4 (as the specification states it): load_page_with_retry always ends by
\* returning a boolean, False only once max_retries attempts were made, and
\* never raises. The code does not do this: the _setup_browser call of the
\* recovery raises out of the method.
C4_LoadReturnsBoolean ==
    pc = "loaded" =>
        /\ load \in {"true", "false"}
        /\ load = "false" => rq.retry_count >= max_retries

PlainStatsKeys ==
    {"total", "relevant", "relevance_ratio", "response_code", "response_message",
     "total_results", "query_time"}

\* C6 (amended): with fewer than 3 marker elements the call returns an empty
\* list and stats.error = "Not enough search results"; with 3 or more
\* elements, not a multiple of 3, it returns normally and the stats carry no
\* reason: they have no key but the plain ones, unless a WebDriverException
\* ended the call.
C6_ShapeAnomalies ==
    (Returned /\ ret.found # <<>>) =>
        /\ ret.found[1] < 3 =>
              /\ ret.results = <<>>
              /\ "error" \in DOMAIN ret.stats
              /\ ret.stats.error = "Not enough search results"
        /\ (ret.found[1] >= 3 /\ ret.found[1] % 3 # 0) =>
              \/ DOMAIN ret.stats \subseteq PlainStatsKeys
              \/ /\ "error" \in DOMAIN ret.stats
                 /\ ret.stats.error = "WebDriverException"
                 /\ ret.results = <<>>

\* Four elements were found and the call returned stats without a reason.
C6_Witness ==
    /\ Returned
    /\ ret.found = <<4>>
    /\ "error" \notin DOMAIN ret.stats

\* C6 (as the specification states it): for both anomalies the stats returned
\* carry a non-empty reason string.
C6_ReasonForBothAnomalies ==
    (Returned /\ ret.found # <<>> /\ (ret.found[1] < 3 \/ ret.found[1] % 3 # 0)) =>
        /\ "error" \in DOMAIN ret.stats
        /\ ret.stats.error # ""

\* ---- C7
TestResultsFields ==
    {"passed", "total_results", "relevant_results", "relevance_ratio",
     "expected_results", "expected_relevance", "response_code", "response_message",
     "error", "individual_results"}

ScrapedFields == {"title", "website", "query_terms", "snippet"}

RelevanceFields == {"relevant", "relevant_terms"}

\* C7 (amended): test_results has exactly the ten fields; every entry of
\* individual_results carries title, website, query_terms and snippet, and
\* either both or none of relevant and relevant_terms; the entries a call
\* stored carry those two exactly when its query was not empty.
C7_TestResultsFields ==
    /\ pc \notin {"new", "failed", "fn"} =>
          /\ DOMAIN test_results = TestResultsFields
          /\ \A i \in 1..Len(test_results.individual_results) :
                 LET keys == DOMAIN test_results.individual_results[i]
                 IN  /\ ScrapedFields \subseteq keys
                     /\ keys \subseteq ScrapedFields \cup RelevanceFields
                     /\ keys \cap RelevanceFields \in {{}, RelevanceFields}
    /\ (Returned /\ "error" \notin DOMAIN ret.stats) =>
          /\ test_results.individual_results = ret.results
          /\ \A i \in 1..Len(ret.results) :
                 (RelevanceFields \subseteq DOMAIN ret.results[i]) <=> (ret.query # <<>>)

\* A call with the empty query stored a result, which has the four scraped
\* fields only.
C7_Witness ==
    /\ Returned
    /\ ret.query = <<>>
    /\ "error" \notin DOMAIN ret.stats
    /\ test_results.individual_results # <<>>
    /\ DOMAIN test_results.individual_results[1] = ScrapedFields

\* C7 (as the specification states it): every entry of individual_results
\* carries all six fields, for every query.
C7_AllSixFields ==
    pc \notin {"new", "failed", "fn"} =>
        /\ DOMAIN test_results = TestResultsFields
        /\ \A i \in 1..Len(test_results.individual_results) :
               DOMAIN test_results.individual_results[i]
                   = ScrapedFields \cup RelevanceFields

\* ---- C8
\* C8 (as the tests state it): when the constructor returns, driver is a
\* session; otherwise it raised a WebDriverException. The code does not do
\* this: with Chrome configured and max_retries = 0 nothing is attempted and
\* nothing is raised.
C8_DriverInitialized ==
    ret.op = "__init__" =>
        IF ret.exc = <<>> THEN driver # NoDriver
        ELSE ret.exc = <<"WebDriverException">>

\* ---- C9
\* C9: in what extract_query_results computes, total_count is the length of
\* the result list, 0 <= relevant_count <= total_count, relevance_ratio is
\* relevant_count / total_count when total_count > 0 and 0.0 otherwise, and
\* lies in [0, 1].
C9_RatioBounds ==
    (inp.fn = "extract" /\ out # <<>>) =>
        LET total == Len(out[1].results)
            relevant == out[1].relevant
            ratio == out[1].relevance_ratio
        IN  /\ out[1].total = total
            /\ 0 <= relevant /\ relevant <= total
            /\ ratio[2] > 0
            /\ total > 0 => ratio[1] * total = relevant * ratio[2]
            /\ total = 0 => ratio[1] = 0
            /\ 0 <= ratio[1] /\ ratio[1] <= ratio[2]

\* One of two results is relevant.
C9_Witness ==
    /\ inp.fn = "extract"
    /\ out # <<>>
    /\ Len(out[1].results) = 2
    /\ out[1].relevant = 1
    /\ out[1].relevance_ratio = <<1, 2>>

\* ---- C10
\* Some term of the list occurs in the text, compared without case.
SomeTermIn(text, terms) ==
    \E i \in 1..Len(terms) : Contains(text, Lower(terms[i]))

\* C10 (amended): a result is marked relevant exactly when some term occurs,
\* compared without case, in the title, one space and the snippet joined in
\* this order; with no terms it is not relevant.
C10_RelevantIffTermInText ==
    (inp.fn = "relevant" /\ out # <<>>) =>
        /\ out[1].relevant <=>
               SomeTermIn(Lower(inp.result.title) \o <<" ">> \o Lower(inp.result.snippet),
                          inp.terms)
        /\ inp.terms = <<>> => ~out[1].relevant

\* The term "ab" lies across the end of the title "a" and the start of the
\* snippet "B": the result is not relevant.
C10_Witness ==
    /\ inp.fn = "relevant"
    /\ out # <<>>
    /\ inp.result = [title |-> <<"a">>, snippet |-> <<"B">>]
    /\ inp.terms = <<<<"a", "b">>>>
    /\ ~out[1].relevant

\* C10 (as the specification states it): the text searched is the title
\* concatenated with the snippet.
C10_TitleConcatenatedWithSnippet ==
    (inp.fn = "relevant" /\ out # <<>>) =>
        /\ out[1].relevant <=>
               SomeTermIn(Lower(inp.result.title \o inp.result.snippet), inp.terms)
        /\ inp.terms = <<>> => ~out[1].relevant

\* ---- C11
\* The maximal runs of the characters satisfying IsPart in a text.
RunsOf(text, IsPart(_)) ==
    LET spans == {r \in (1..Len(text)) \X (1..Len(text)) :
                     /\ r[1] <= r[2]
                     /\ \A k \in r[1]..r[2] : IsPart(text[k])
                     /\ r[1] = 1 \/ ~IsPart(text[r[1] - 1])
                     /\ r[2] = Len(text) \/ ~IsPart(text[r[2] + 1])}
    IN  {SubSeq(text, r[1], r[2]) : r \in spans}

IsLetterOrDigit(c) == IsWordChar(c) /\ c # "_"

\* C11 (amended): _get_non_function_words returns exactly the lower-cased
\* words of the query that are not function words, a word being a maximal run
\* of letters, digits and underscores (the underscore is part of a word, other
\* punctuation is not; duplicates collapse); for "he is from the kingdom of
\* wakanda" the result is {"he", "kingdom", "wakanda"}.
C11_NonFunctionWords ==
    (inp.fn = "words" /\ out # <<>>) =>
        /\ out[1] = {w \in RunsOf(Lower(inp.query), IsWordChar) : w \notin FUNCTION_WORDS}
        /\ inp.query = WakandaQuery =>
               out[1] = {<<"h", "e">>, <<"k", "i", "n", "g", "d", "o", "m">>,
                         <<"w", "a", "k", "a", "n", "d", "a">>}

\* The query "A_b" has the one word "a_b".
C11_Witness ==
    /\ inp.fn = "words"
    /\ inp.query = <<"A", "_", "b">>
    /\ out = <<{<<"a", "_", "b">>}>>

\* C11 (as the specification states it): the words are the alphanumeric runs.
C11_AlphanumericWords ==
    (inp.fn = "words" /\ out # <<>>) =>
        out[1] = {w \in RunsOf(Lower(inp.query), IsLetterOrDigit) : w \notin FUNCTION_WORDS}

\* ---- C12
\* How often a character occurs in a text.
Occurrences(text, c) == Cardinality({i \in 1..Len(text) : text[i] = c})

\* The character a percent code stands for ("?" for a code of no character
\* the model uses).
CharOfCode(code) ==
    LET cs == {c \in {"+", "&", "=", "?", "/", "%", " "} : PercentCode(c) = code}
    IN  IF cs = {} THEN "?" ELSE CHOOSE c \in cs : TRUE

\* The text an encoded query stands for: "+" is a space, "%XY" a character.
RECURSIVE Decoded(_)
Decoded(s) ==
    IF s = <<>> THEN <<>>
    ELSE IF s[1] = "+" THEN <<" ">> \o Decoded(Tail(s))
    ELSE IF s[1] = "%" /\ Len(s) >= 3
    THEN <<CharOfCode(SubSeq(s, 1, 3))>> \o Decoded(SubSeq(s, 4, Len(s)))
    ELSE <<s[1]>> \o Decoded(Tail(s))

\* The extra parameters as they are expected in the URL.
RECURSIVE ExpectedPairs(_, _)
ExpectedPairs(items, i) ==
    IF i > Len(items) THEN <<>>
    ELSE <<"&">> \o items[i][1] \o <<"=">> \o items[i][2] \o ExpectedPairs(items, i + 1)

\* C12: create_url returns base_url, "/run_search?query=", the encoded query,
\* "&its-me=", the flag, and "&key=value" for each extra parameter in order;
\* the encoded query has no space, has one "+" for each space of the query,
\* keeps letters as they are and decodes to the query; the encoded query and
\* the path with the flag are substrings of the result.
C12_CreateUrl ==
    (inp.fn = "url" /\ out # <<>>) =>
        LET url == out[1]
            head == BaseUrl \o <<"/", "r", "u", "n", "_", "s", "e", "a", "r", "c", "h",
                                 "?", "q", "u", "e", "r", "y", "=">>
            flag == <<"&", "i", "t", "s", "-", "m", "e", "=">> \o inp.its_me
            tail == flag \o ExpectedPairs(inp.additional_params, 1)
            enc == SubSeq(url, Len(head) + 1, Len(url) - Len(tail))
        IN  /\ Len(url) >= Len(head) + Len(tail)
            /\ SubSeq(url, 1, Len(head)) = head
            /\ SubSeq(url, Len(url) - Len(tail) + 1, Len(url)) = tail
            /\ " " \notin Range(enc)
            /\ Occurrences(enc, "+") = Occurrences(inp.query, " ")
            /\ Occurrences(enc, "a") = Occurrences(inp.query, "a")
            /\ Decoded(enc) = inp.query
            /\ Contains(url, enc)
            /\ Contains(url, SubSeq(head, Len(BaseUrl) + 1, Len(head)) \o enc \o flag)

\* The query "a +" with two extra parameters.
C12_Witness ==
    /\ inp.fn = "url"
    /\ inp.query = <<"a", " ", "+">>
    /\ Len(inp.additional_params) = 2
    /\ out # <<>>
    /\ Contains(out[1], <<"=", "a", "+", "%", "2", "B", "&", "i", "t", "s", "-", "m", "e", "=">>)
    /\ Contains(out[1], <<"&", "j", "=", "w", "&", "k", "=", "v">>)

\* ---- C13
\* The positions of the trace where an iteration of the setup loop starts.
AttemptMarks(trace) == {i \in 1..Len(trace) : trace[i].ev = "attempt"}

\* The position after the last entry of the iteration that starts at i.
AttemptEnd(trace, i) ==
    LET later == {j \in (i + 1)..Len(trace) : trace[j].ev \in {"attempt", "fallback"}}
    IN  IF later = {} THEN Len(trace) + 1
        ELSE CHOOSE j \in later : \A k \in later : j <= k

\* C13: in the _setup_browser call of the constructor the attempts made with
\* the configured backend are numbered 1, 2, ... and are at most max_retries;
\* an attempt that constructs a session and sets its timeouts ends the call;
\* every other attempt quits the session it constructed, if any, and ends
\* with a pause of 2 seconds, which so precedes the next attempt.
C13_SetupAttempts ==
    ret.op = "__init__" =>
        LET marks == AttemptMarks(log)
            configured == IF CountEv(log, "fallback", "chrome") > 0 THEN "firefox"
                          ELSE Backend(use_chrome)
        IN  /\ Cardinality(marks) <= max_retries
            /\ {log[i].n : i \in marks} = 1..Cardinality(marks)
            /\ \A i \in marks :
                   LET last == AttemptEnd(log, i) - 1
                       done == /\ log[last].ev = "set_timeouts"
                               /\ log[last].ok
                               /\ \E j \in (i + 1)..(last - 1) :
                                      log[j].ev = "construct" /\ log[j].ok
                   IN  /\ log[i].who = configured
                       /\ last > i
                       /\ \A j \in (i + 1)..last : log[j].who \in {configured, ""}
                       /\ Cardinality({j \in (i + 1)..last : log[j].ev = "construct"})
                              \in 1..2
                       /\ done => (last = Len(log) /\ pc = "idle" /\ driver = configured)
                       /\ ~done =>
                              /\ log[last] = Ev("sleep", "", TRUE, 2)
                              /\ \A j \in (i + 1)..last :
                                     (log[j].ev = "construct" /\ log[j].ok) =>
                                         \E k \in (j + 1)..(last - 1) :
                                             log[k].ev = "quit" /\ log[k].who = log[j].who

\* The first attempt constructed a session whose timeouts could not be set:
\* it was quit; the second attempt succeeded and the constructor returned.
C13_Witness ==
    /\ ret.op = "__init__"
    /\ pc = "idle"
    /\ Cardinality(AttemptMarks(log)) = 2
    /\ \E i \in 1..Len(log) : log[i].ev = "set_timeouts" /\ ~log[i].ok
    /\ \E i \in 1..Len(log) : log[i].ev = "quit"
    /\ log[Len(log)].ev = "set_timeouts" /\ log[Len(log)].ok

\* ---- C14
\* The trace of one load attempt ends with a navigation that succeeded and a
\* current URL that was read and is not empty.
NavigationSucceeded(trace) ==
    /\ Len(trace) >= 3
    /\ trace[Len(trace) - 2].ev = "get" /\ trace[Len(trace) - 2].ok
    /\ trace[Len(trace) - 1] = Ev("sleep", "", TRUE, 1)
    /\ trace[Len(trace)].ev = "current_url"
    /\ trace[Len(trace)].ok
    /\ trace[Len(trace)].n = 1

\* C14: inside load_page_with_retry, retry_count (the number of attempts that
\* have ended without a return) never exceeds max_retries and an attempt starts
\* only below it; an attempt navigates at most once; the method returns True
\* exactly at an attempt whose get succeeded and whose current URL is not
\* empty, and an attempt with such a navigation never goes on to a further
\* attempt; after the k-th failed attempt the method sleeps 2*k seconds when
\* k < max_retries and does not sleep when k = max_retries, where it returns
\* False.
C14_LoadAttempts ==
    pc \in {"load", "load_tail", "loaded"} =>
        /\ rq.retry_count <= max_retries
        /\ pc = "load_tail" =>
               /\ rq.retry_count < max_retries
               /\ CountEv(log, "get", Backend(FALSE)) + CountEv(log, "get", Backend(TRUE)) <= 1
               /\ ~NavigationSucceeded(log)
        /\ (pc = "loaded" /\ load = "true") =>
               /\ rq.retry_count < max_retries
               /\ CountEv(log, "get", Backend(FALSE)) + CountEv(log, "get", Backend(TRUE)) = 1
               /\ NavigationSucceeded(log)
        /\ (pc = "loaded" /\ load \in {"raise_wde", "raise_attr"}) =>
               ~NavigationSucceeded(log)
        /\ (pc = "loaded" /\ load = "false") => rq.retry_count = max_retries
        /\ (pc = "load" /\ rq.retry_count > 0) =>
               log = IF rq.retry_count < max_retries
                     THEN <<Ev("sleep", "", TRUE, 2 * rq.retry_count)>>
                     ELSE <<>>

\* Two attempts have failed and a third is still to come: the method has just
\* slept 4 seconds.
C14_Witness ==
    /\ pc = "load"
    /\ rq.retry_count = 2
    /\ max_retries = 3
    /\ log = <<Ev("sleep", "", TRUE, 4)>>

\* ---- C15
\* The position of the get of a load attempt's trace, 0 when the attempt did
\* not get as far as navigating.
GetIndex(trace) ==
    LET gets == {i \in 1..Len(trace) : trace[i].ev = "get"}
    IN  IF gets = {} THEN 0 ELSE CHOOSE i \in gets : TRUE

\* The position of the browser call whose exception sent the attempt into its
\* except branch: the get, or the read of the current URL after it; 0 when
\* neither raised.
RaisedIndex(trace) ==
    LET g == GetIndex(trace)
    IN  IF g = 0 THEN 0
        ELSE IF ~trace[g].ok THEN g
        ELSE IF ~trace[g + 2].ok THEN g + 2
        ELSE 0

\* After position i of the trace a session was constructed and configured,
\* and it is the session now held.
SessionCreatedAfter(trace, i) ==
    /\ \E k \in (i + 1)..Len(trace) : trace[k].ev = "construct" /\ trace[k].ok
    /\ trace[Len(trace)].ev = "set_timeouts"
    /\ trace[Len(trace)].ok
    /\ driver = trace[Len(trace)].who

\* C15: when a load attempt has failed and a further iteration follows, then
\* (a) if _ensure_browser_active raised, a new session was created; (b) if the
\* get or the read of the current URL raised, the session used for it was quit
\* right away (whether or not quit succeeded) and a new session was created
\* after that; (c) if nothing raised and the current URL was empty, the
\* session is neither quit nor replaced: the same session is still held.
C15_SessionAfterFailedAttempt ==
    pc = "load_tail" =>
        LET g == GetIndex(log)
            r == RaisedIndex(log)
        IN  /\ g = 0 => SessionCreatedAfter(log, 0)
            /\ (g > 0 /\ r > 0) =>
                   /\ log[r + 1].ev = "quit"
                   /\ log[r + 1].who = log[g].who
                   /\ SessionCreatedAfter(log, r + 1)
            /\ (g > 0 /\ r = 0) =>
                   /\ Len(log) = g + 2
                   /\ log[g + 2] = Ev("current_url", log[g].who, TRUE, 0)
                   /\ driver = log[g].who

\* A get raised, the session was quit and a new one created; the loop goes on.
C15_Witness ==
    /\ pc = "load_tail"
    /\ GetIndex(log) > 0
    /\ RaisedIndex(log) = GetIndex(log)
    /\ log[RaisedIndex(log) + 1].ev = "quit"
    /\ SessionCreatedAfter(log, RaisedIndex(log) + 1)

\* C15 as stated: after every failed load attempt that navigated, the session
\* is quit and a new session is created before the next attempt.
C15_EveryFailedAttemptRecreates ==
    (pc = "load_tail" /\ GetIndex(log) > 0) =>
        \E q \in (GetIndex(log) + 1)..Len(log) :
            /\ log[q].ev = "quit"
            /\ SessionCreatedAfter(log, q)

\* ---- C16
\* C16: _ensure_browser_active leaves the session as it is when the probe of
\* the current URL succeeds; with no driver, or when the probe raises, it quits
\* the old session if there is one (whatever quit answers), clears the handle
\* and runs _setup_browser; and whenever it returns normally a driver is held.
C16_EnsureBrowserActive ==
    (inp.fn = "ensure" /\ out # <<>>) =>
        LET v == inp.invoker
            e == out[1]
            held == v.driver # NoDriver
            alive == held /\ Outcome(inp.orc, 1)
        IN  /\ alive =>
                /\ ~e.raised
                /\ e.driver = v.driver
                /\ e.log = <<Ev("current_url", v.driver, TRUE, 0)>>
            /\ (held /\ ~alive) =>
                /\ Len(e.log) >= 2
                /\ e.log[1] = Ev("current_url", v.driver, FALSE, 0)
                /\ e.log[2].ev = "quit" /\ e.log[2].who = v.driver
            /\ ~held => (e.log = <<>> \/ e.log[1].ev \in {"attempt", "fallback"})
            /\ ~e.raised => e.driver # NoDriver

\* ---- C17
\* C17: a step in which the wait for the marker element times out ends the
\* run_query call without an exception; the call returns no results, relevant
\* count 0, ratio 0 and stats with total 0, relevant 0, the error
\* "Timeout waiting for results" and the response code and message that
\* get_response_info had returned in this call (no code and the message
\* "Error retrieving response info" when reading the page had failed), which
\* are also the ones kept in test_results, left as they were.
C17_TimeoutReturn ==
    [][WaitStep("timeout") =>
          /\ pc' = "idle"
          /\ ret'.op = "run_query"
          /\ ret'.exc = None
          /\ ret'.query = rq.query
          /\ ret'.results = <<>>
          /\ ret'.relevant_count = 0
          /\ ret'.relevance_ratio = Zero
          /\ ret'.stats = [total |-> 0, relevant |-> 0,
                           error |-> "Timeout waiting for results",
                           response_code |-> rq.response_code,
                           response_message |-> rq.response_message]
          /\ rq.response_code = test_results.response_code
          /\ rq.response_message = test_results.response_message
          /\ test_results' = test_results]_vars

\* A call has returned after the wait timed out on a page whose response code
\* was read as 404.
C17_Witness ==
    /\ pc = "idle"
    /\ Returned
    /\ ret.results = <<>>
    /\ ret.stats.error = "Timeout waiting for results"
    /\ ret.stats.response_code = Some(404)

\* ---- C18
\* The pieces of a list joined with sep between them (str.join).
RECURSIVE JoinWith(_, _)
JoinWith(pieces, sep) ==
    IF pieces = <<>> THEN <<>>
    ELSE IF Len(pieces) = 1 THEN pieces[1]
    ELSE pieces[1] \o sep \o JoinWith(Tail(pieces), sep)

\* The 0-based triples of a page whose stripped title and website are both
\* non-empty.
KeptGroups(search_results) ==
    {k \in 0..((Len(search_results) \div 3) - 1) :
        /\ Strip(search_results[3 * k + 1]) # <<>>
        /\ Strip(search_results[3 * k + 2]) # <<>>}

\* C18: for N >= 3 marker elements with N mod 3 = 0 the result list has one
\* record for each triple k whose stripped title and website are non-empty,
\* in the order of the triples; the record's title and website are the
\* stripped texts of elements 3k and 3k+1, its query_terms are the stripped
\* text of element 3k+2 split on "; " (pieces without "; " that joined with
\* "; " give that text back), and its snippet is the first of them.
C18_TriplesInOrder ==
    (inp.fn = "extract" /\ out # <<>> /\ Len(inp.search_results) % 3 = 0) =>
        LET e == inp.search_results
            res == out[1].results
            kept == KeptGroups(e)
        IN  /\ Len(res) = Cardinality(kept)
            /\ \A k \in kept :
                   LET r == res[Cardinality({j \in kept : j <= k})]
                   IN  /\ ScrapedFields \subseteq DOMAIN r
                       /\ r.title = Strip(e[3 * k + 1])
                       /\ r.website = Strip(e[3 * k + 2])
                       /\ Len(r.query_terms) >= 1
                       /\ JoinWith(r.query_terms, TermSeparator) = Strip(e[3 * k + 3])
                       /\ \A t \in 1..Len(r.query_terms) :
                              ~Contains(r.query_terms[t], TermSeparator)
                       /\ r.snippet = r.query_terms[1]

\* Six elements: the first triple is skipped for its blank title, the second
\* gives the only result, whose cell holds two terms.
C18_Witness ==
    /\ inp.fn = "extract"
    /\ out # <<>>
    /\ Len(inp.search_results) = 6
    /\ KeptGroups(inp.search_results) = {1}
    /\ Len(out[1].results) = 1
    /\ Len(out[1].results[1].query_terms) = 2

\* ---- C19
\* C19: when close() has returned, no exception was raised and the driver
\* handle is None; if a driver was held, exactly two calls were made on it,
\* the window close and then the quit, whatever the window close answered;
\* with no driver held no call was made.
C19_CloseThenQuit ==
    ret.op = "close" =>
        /\ ret.exc = None
        /\ driver = NoDriver
        /\ IF ret.held = NoDriver
           THEN log = <<>>
           ELSE /\ Len(log) = 2
                /\ log[1].ev = "close" /\ log[1].who = ret.held
                /\ log[2].ev = "quit" /\ log[2].who = ret.held

\* A close() on a held driver whose window close failed and whose quit failed
\* too.
C19_Witness ==
    /\ ret.op = "close"
    /\ ret.held # NoDriver
    /\ Len(log) = 2
    /\ ~log[1].ok
    /\ ~log[2].ok
    /\ driver = NoDriver

\* ---- C20
\* The errors of a call that ended before it had read the marker elements.
EarlyErrors ==
    {"Failed to load page after retries", "Timeout waiting for results",
     "WebDriverException"}

\* C20: every run_query call returns a (results, stats) tuple and no exception
\* leaves it. A call that ended before reading the marker elements (failed
\* load, failed session recreation, wait timeout, an exception of a browser
\* call) returns no results and names the failure in stats.error; a call that
\* read fewer than 3 elements returns the error "Not enough search results";
\* a call that read 3 or more elements has an error entry only for an
\* exception raised after that, never for the shape of the page.
C20_StructuredReturn ==
    ret.op = "run_query" =>
        /\ ret.exc = None
        /\ {"results", "relevant_count", "relevance_ratio", "stats"} \subseteq DOMAIN ret
        /\ ret.found = None =>
               /\ "error" \in DOMAIN ret.stats
               /\ ret.stats.error \in EarlyErrors
               /\ ret.results = <<>>
        /\ (ret.found # None /\ ret.found[1] < 3) =>
               /\ "error" \in DOMAIN ret.stats
               /\ ret.stats.error = "Not enough search results"
               /\ ret.results = <<>>
        /\ (ret.found # None /\ ret.found[1] >= 3 /\ "error" \in DOMAIN ret.stats) =>
               /\ ret.stats.error = "WebDriverException"
               /\ ret.results = <<>>

\* The session could not be recreated while loading: the call returned the
\* exception's text in stats.error before any response code was read.
C20_Witness ==
    /\ ret.op = "run_query"
    /\ ret.exc = None
    /\ ret.found = None
    /\ ret.stats.error = "WebDriverException"
    /\ ret.stats.response_code = None
    /\ driver = NoDriver

\* C20 as stated: no exception leaves run_query and every browser-side
\* failure, a marker-element count that is too small or not a multiple of 3
\* included, is described in stats.error.
C20_EveryFailureInStatsError ==
    ret.op = "run_query" =>
        /\ ret.exc = None
        /\ (\/ ret.found = None
            \/ ret.found[1] < 3
            \/ ret.found[1] % 3 # 0) =>
               /\ "error" \in DOMAIN ret.stats
               /\ ret.stats.error # ""

\* ---- C21
\* The exception classes save_test_results reports as a boolean failure.
FilesystemErrors == {"OSError", "PermissionError"}

SerializationErrors == {"TypeError", "ValueError"}

\* The exception a save_test_results call met: that of create_directory when
\* the directory had to be created and could not, else that of write_json;
\* "ok" when there was none.
SaveFailure ==
    IF inp.has_dir /\ ~inp.dir_exists /\ inp.mkdir # "ok" THEN inp.mkdir ELSE inp.write

\* C21: save_test_results returns True exactly when write_json wrote the file;
\* on a filesystem or serialization error it returns False and raises
\* nothing; any other exception leaves the method as it was raised; the
\* directory is created only when the filename names one that does not exist,
\* and the file is not written when that fails; test_results is unchanged in
\* every case.
C21_SaveTestResults ==
    (inp.fn = "save" /\ out # <<>>) =>
        LET r == out[1]
        IN  /\ r.test_results = inp.test_results
            /\ r.written <=> (SaveFailure = "ok")
            /\ r.written <=> (r.value = Some(TRUE))
            /\ r.written => r.exc = None
            /\ SaveFailure \in FilesystemErrors \cup SerializationErrors =>
                   (r.value = Some(FALSE) /\ r.exc = None)
            /\ SaveFailure \notin {"ok"} \cup FilesystemErrors \cup SerializationErrors =>
                   (r.value = None /\ r.exc = Some(SaveFailure))
            /\ ("create_directory" \in Range(r.calls)) <=> (inp.has_dir /\ ~inp.dir_exists)
            /\ r.written => r.calls[Len(r.calls)] = "write_json"

\* The directory was created, then write_json raised an error no handler
\* names: it left the method.
C21_Witness ==
    /\ inp.fn = "save"
    /\ out # <<>>
    /\ out[1].calls = <<"file_exists", "create_directory", "write_json">>
    /\ out[1].exc = Some("RuntimeError")
    /\ out[1].test_results = inp.test_results

\* ---- C22
\* C22: the query "python programming" run on a page of 9 marker elements
\* forming 3 complete triples that each name "python" in the title or the
\* snippet gives 3 results, all relevant, ratio 1; with expected_results = 3
\* and threshold 0.7 verify_results returns true and test_results.passed is
\* true.
C22_EndToEnd ==
    (inp.fn = "scenario" /\ out # <<>>) =>
        LET r == out[1]
        IN  /\ Len(inp.search_results) = 9
            /\ inp.expected_results = 3
            /\ Len(r.results) = 3
            /\ \A i \in 1..3 : r.results[i].relevant
            /\ r.relevant_count = 3
            /\ r.relevance_ratio = <<1, 1>>
            /\ r.stats.total = 3
            /\ r.verdict.ok
            /\ r.verdict.reasons = <<>>
            /\ r.test_results.passed
            /\ r.test_results.total_results = 3
            /\ r.test_results.relevance_ratio = <<1, 1>>

\* The scenario was run on a page whose triples name "python" in the title
\* only, in the snippet only and in both.
C22_Witness ==
    /\ inp.fn = "scenario"
    /\ out # <<>>
    /\ Cardinality({inp.search_results[3 * k + 1] : k \in 0..2}) = 3
    /\ out[1].verdict.ok
    /\ out[1].test_results.passed

\* ---- C23
\* C23 (as stated): when a run_query call has returned, test_results
\* describes that call: its counts, ratio and result list are the values
\* returned, passed is set only if the returned values meet the expectations,
\* and error is set only to the error the call returned.
C23_TestResultsOfThisCall ==
    (pc = "idle" /\ Returned) =>
        /\ test_results.total_results = Len(ret.results)
        /\ test_results.relevant_results = ret.relevant_count
        /\ test_results.relevance_ratio = ret.relevance_ratio
        /\ test_results.individual_results = ret.results
        /\ test_results.passed =>
               /\ "error" \notin DOMAIN ret.stats
               /\ Len(ret.results) >= expected_results
               /\ FracGE(ret.relevance_ratio, relevance_threshold)
        /\ test_results.error # None =>
               /\ "error" \in DOMAIN ret.stats
               /\ test_results.error = Some(ret.stats.error)

\* ---- C24
\* C24 (as stated): verify_results applied to what a run_query call returned
\* gives the verdict test_results.passed holds after that call, for every
\* expected_results and relevance_threshold.
C24_VerdictsAgree ==
    (pc = "idle" /\ Returned /\ verdict # <<>>) =>
        (verdict[1].ok <=> test_results.passed)

\* ---- C25
\* C25: in what the extraction returns for a non-empty query every result is
\* scored; the relevant_terms of a scored result name no term twice and are
\* among the non-function terms of the query; its relevant flag is true
\* exactly when relevant_terms is not empty; and relevant_count is the number
\* of results whose flag is true (0 for the empty query, whose results are not
\* scored).
C25_ScoredResults ==
    (inp.fn = "extract" /\ out # <<>>) =>
        LET res == out[1].results
            scored == {i \in 1..Len(res) : "relevant" \in DOMAIN res[i]}
        IN  /\ inp.query # <<>> => scored = 1..Len(res)
            /\ \A i \in scored :
                   LET found == res[i].relevant_terms
                   IN  /\ \A a, b \in 1..Len(found) : a # b => found[a] # found[b]
                       /\ Range(found) \subseteq GetNonFunctionWords(inp.query)
                       /\ res[i].relevant <=> (found # <<>>)
            /\ out[1].relevant = Cardinality({i \in scored : res[i].relevant})

\* The query "x Py x" on a page with a result that holds both of its terms
\* and a result that holds none.
C25_Witness ==
    /\ inp.fn = "extract"
    /\ out # <<>>
    /\ Len(FindAllWords(Lower(inp.query))) = 3
    /\ \E i \in 1..Len(out[1].results) : Len(out[1].results[i].relevant_terms) = 2
    /\ \E i \in 1..Len(out[1].results) : ~out[1].results[i].relevant
    /\ out[1].relevant < Len(out[1].results)

\* ---- C26
\* The sessions running after the first k entries of an operation's trace,
\* when `before` were running at its start: one more for each construction
\* that succeeded, one less for each quit.
LiveSessions(trace, k, before) ==
    before
    + Cardinality({j \in 1..k : trace[j].ev = "construct" /\ trace[j].ok})
    - Cardinality({j \in 1..k : trace[j].ev = "quit"})

\* C26 (as stated): through every operation that starts or ends sessions (the
\* constructor, a load attempt with its liveness check and recovery, close)
\* at most one session is running at any point, and when the operation is
\* over a session is running only if the invoker holds it: none when the
\* handle is None, none when the constructor raised and there is no invoker.
C26_OneOwnedSession ==
    [][(\/ pc = "new"
        \/ (pc = "load" /\ pc' # "load")
        \/ (pc = "idle" /\ pc' = "idle" /\ ret'.op = "close")) =>
          LET before == IF driver = NoDriver THEN 0 ELSE 1
          IN  /\ \A k \in 0..Len(log') : LiveSessions(log', k, before) \in 0..1
              /\ LiveSessions(log', Len(log'), before)
                     = (IF driver' = NoDriver \/ pc' = "failed" THEN 0 ELSE 1)]_vars

\* ---- C27
\* C27 (as stated): when _setup_browser has raised, in the constructor or in
\* the recovery of a load attempt, no driver is held and every session the
\* operation constructed has been quit.
C27_RaiseLeavesNoSession ==
    (pc = "failed" \/ (pc = "loaded" /\ load = "raise_wde")) =>
        /\ driver = NoDriver
        /\ \A j \in 1..Len(log) :
               (log[j].ev = "construct" /\ log[j].ok) =>
                   \E k \in (j + 1)..Len(log) :
                       log[k].ev = "quit" /\ log[k].who = log[j].who

\* ---- C28
\* C28: a close() that follows a close() finds no driver, makes no browser
\* call, raises nothing and leaves the invoker as it was, the handle still
\* None.
C28_CloseIdempotent ==
    [][(pc = "idle" /\ ret.op = "close" /\ ret'.op = "close") =>
          /\ driver = NoDriver
          /\ ret'.held = NoDriver
          /\ ret'.exc = None
          /\ log' = <<>>
          /\ driver' = NoDriver
          /\ UNCHANGED <<pc, use_chrome, config, test_results>>]_vars

\* A Firefox invoker that ran no query has been closed a second time: only a
\* close can have cleared its handle, and this close found it cleared.
C28_Witness ==
    /\ pc = "idle"
    /\ ret.op = "close"
    /\ ret.exc = None
    /\ ret.held = NoDriver
    /\ ~use_chrome
    /\ calls = 0
    /\ log = <<>>
    /\ driver = NoDriver

\* ---- C29
\* The positions of the fallback entries of a trace.
Fallbacks(trace) == {i \in 1..Len(trace) : trace[i].ev = "fallback"}

\* C29: use_chrome never goes back to false; a step takes the fallback only
\* on an invoker configured for Firefox, takes it once, and leaves use_chrome
\* true whether or not the fallback gave a driver; nothing is done with
\* Firefox after the fallback, in the same operation or in a later one, and
\* an invoker whose use_chrome is true takes no fallback.
C29_FallbackOnce ==
    [][/\ use_chrome => use_chrome'
       /\ log' # log =>
              /\ Cardinality(Fallbacks(log')) <= 1
              /\ Fallbacks(log') # {} <=> (~use_chrome /\ use_chrome')
              /\ \A f \in Fallbacks(log') : \A j \in (f + 1)..Len(log') :
                     log'[j].who # "firefox"
              /\ use_chrome => \A j \in 1..Len(log') : log'[j].who # "firefox"]_vars

\* In one load attempt the liveness check took the fallback, which failed;
\* the recovery then made its attempts with Chrome only and raised.
C29_Witness ==
    /\ pc = "loaded"
    /\ load = "raise_wde"
    /\ use_chrome
    /\ Cardinality(Fallbacks(log)) = 1
    /\ \E f \in Fallbacks(log) :
           /\ \E j \in 1..(f - 1) : log[j].ev = "attempt" /\ log[j].who = "firefox"
           /\ \E j \in (f + 1)..Len(log) : log[j].ev = "attempt" /\ log[j].who = "chrome"

\* ---- C30
InRunQuery == pc \in {"load", "load_tail", "loaded", "wait", "find", "stats"}

\* The session constructions of one _setup_browser call: two per Firefox
\* attempt, one per Chrome attempt, one for the fallback.
SetupBound(m) == 2 * m + 1

\* C30: a run_query call that was entered ends, returning or raising, for
\* every max_retries and every outcome of the browser calls. The setup loop
\* numbers its attempts 1, 2, ... up to max_retries, the end of a page-load
\* iteration adds one to retry_count, which stays within max_retries, and one
\* page-load iteration constructs at most 2 * (2 * max_retries + 1) sessions,
\* so one call constructs at most max_retries times as many.
C30_RunQueryTerminates ==
    /\ InRunQuery ~> (pc = "idle" /\ ret.op = "run_query")
    /\ [][(pc = "load_tail" /\ pc' = "load") =>
              rq'.retry_count = rq.retry_count + 1]_vars
    /\ [](InRunQuery => rq.retry_count <= max_retries)
    /\ [](\A i \in AttemptMarks(log) :
              /\ log[i].n \in 1..max_retries
              /\ (i > 1 /\ log[i].n > 1) =>
                     \E j \in AttemptMarks(log) :
                         j < i /\ log[j].n = log[i].n - 1
                         /\ \A k \in (j + 1)..(i - 1) : log[k].ev # "attempt")
    /\ [](InRunQuery =>
              CountEv(log, "construct", "firefox") + CountEv(log, "construct", "chrome")
                  <= 2 * SetupBound(max_retries))

\* A call with the largest max_retries ended after every page-load iteration
\* failed.
C30_Witness ==
    /\ pc = "idle"
    /\ calls = 1
    /\ max_retries = MaxRetries
    /\ ret.op = "run_query"
    /\ ret.exc = None
    /\ "error" \in DOMAIN ret.stats
    /\ ret.stats.error = "Failed to load page after retries"

====
